---- MODULE Spec2Model ----
(***************************************************************************)
(* Qeyloop: the pure JS DSP engine (JsDspEngine), the AudioWorklet         *)
(* processor that dispatches port messages to it (QeyloopProcessor) and    *)
(* the main-thread AudioEngine that posts those messages.                  *)
(*                                                                         *)
(* Numbers.  Positions and pitch multipliers are kept in quarter samples   *)
(* (POS_UNIT), so that the multipliers 2^(n/12) for n a multiple of 12 in  *)
(* [-24, 24] (1/4, 1/2, 1, 2, 4) are exact integers.  Volumes are in       *)
(* percent (0..100 for 0.0..1.0).                                          *)
(***************************************************************************)
EXTENDS Integers, Sequences, FiniteSets, TLC

----------------------------------------------------------------------------
(* Sizes.  The source pools hold 64 voices and 64 sounds and a block is    *)
(* 128 frames at 48000 Hz; the model keeps the code and scales the sizes.  *)

\* const MAX_VOICES = 64 in the source
MAX_VOICES == 2

\* const MAX_SOUNDS = 64 in the source
MAX_SOUNDS == 1

\* frames rendered by one process() call: outputBuffer.length / 2 = 128 in the source
BLOCK_SIZE == 2

\* processorOptions.sampleRate, 48000 in the source
SAMPLE_RATE == 4

\* process() is not called once globalSamplePosition has reached this value
MaxSamplePosition == 2

\* longest buffer handed to load_sound
MaxLen == 2

\* export const MAX_PAGES = 10 in the source
MAX_PAGES == 2

\* the sound slots of one page: the literal 64 of the page manager, which is
\* the size of the engine's sound bank
SLOTS_PER_PAGE == MAX_SOUNDS

\* new Array(256): the key mapping table
KEY_TABLE_SIZE == 256

POS_UNIT == 4

\* PlaybackMode
SingleShot == 0
Loop == 1

\* OverlapMode
Polyphonic == 0
Monophonic == 1

\* ModulationPreset.None
PresetNone == 0

----------------------------------------------------------------------------
(* Inputs of the commands *)

\* key codes of the table that the model exercises ('A', 'B')
KeyA == 65

KeyB == 66

KEYS == {KeyA, KeyB}

\* a key code beyond the table: keyMappings[256] is undefined
BadKey == KEY_TABLE_SIZE

\* the indices at which this.sounds can hold an object: the MAX_SOUNDS
\* elements and the property "-1" that load_sound(-1, ..) creates
SlotDomain == (-1) .. (MAX_SOUNDS - 1)

\* slot arguments of the performance scenario: the first slot of the bank and
\* the first index past the bank
SlotArgs == {0, MAX_SOUNDS}

\* sample buffers handed to load_sound (sample values are 1, 2, 3, ..)
Buffer(n) == [i \in 1 .. n |-> i]

BufferArgs == {Buffer(MaxLen)}

ModeArgs == {SingleShot, Loop}

\* overlap settings of the performance scenario: polyphonic in no group
\* (group 0) or monophonic in group 1
OverlapGroupArgs == {<<Polyphonic, 0>>, <<Monophonic, 1>>}

----------------------------------------------------------------------------
(* State *)

VARIABLES
  sounds,               \* this.sounds: slot -> [defined, samples, length, loaded]
  voices,               \* this.voices: 0..MAX_VOICES-1 -> voice object
  keyMappings,          \* this.keyMappings, restricted to KEYS
  bpm,                  \* this.bpm
  globalSamplePosition, \* this.globalSamplePosition
  metronomeEnabled,     \* this.metronomeEnabled
  metronomeVolume,      \* this.metronomeVolume (percent)
  modulationPreset,     \* this.modulationPreset
  masterVolume,         \* this.masterVolume (percent)
  threw,                \* "command" or "process": the last call ended in a TypeError; else "none"
  workletNode,          \* AudioEngine.workletNode is set (not null)
  port,                 \* messages posted to the worklet's port and not yet handled
  issued,               \* history: the commands the host called on the AudioEngine
  applied,              \* history: the messages whose handler called the engine
  hostKeyMappings,      \* ModeManager.keyMappings, restricted to KEYS
  loadedSounds,         \* AudioEngine.loadedSounds: the indices it holds sound data for
  pages,                \* PageManager.pages: page index -> page state
  activePageIndex,      \* PageManager.activePageIndex
  heldKeys,             \* KeyboardHandler.heldKeys
  pageHistories,        \* HistoryManager.pageHistories: page index -> undo and redo stack
  sharedMappings,       \* key -> the history snapshot whose mapping object the mode manager holds
  pageJumpTimers,       \* the page jumps executePageJump has scheduled (setTimeout), oldest first
  soundDrops,           \* the handleSoundDrop calls suspended at their await
  returned,             \* what the last call of createPage, switchToPage, undo, redo or paste returned
  clipboard,            \* ClipboardManager: content, sourceKeyCode, _wasCut
  keyboardEnabled       \* KeyboardHandler.enabled

engineVars == <<sounds, voices, keyMappings, bpm, globalSamplePosition,
                metronomeEnabled, metronomeVolume, modulationPreset,
                masterVolume, threw>>

\* the state of the edit history, the timers and the suspended handlers
editVars == <<pageHistories, sharedMappings, pageJumpTimers, soundDrops, returned, clipboard, keyboardEnabled>>

\* the host's state but for the value returned
hostVarsButReturned == <<workletNode, port, issued, applied, hostKeyMappings, loadedSounds, pages, activePageIndex, heldKeys, pageHistories, sharedMappings, pageJumpTimers, soundDrops, clipboard, keyboardEnabled>>

padVars == <<hostKeyMappings, loadedSounds, pages, activePageIndex, heldKeys,
             pageHistories, sharedMappings, pageJumpTimers, soundDrops, returned,
             clipboard, keyboardEnabled>>

hostVars == <<workletNode, port, issued, applied, hostKeyMappings, loadedSounds,
              pages, activePageIndex, heldKeys,
              pageHistories, sharedMappings, pageJumpTimers, soundDrops, returned,
             clipboard, keyboardEnabled>>

vars == <<sounds, voices, keyMappings, bpm, globalSamplePosition,
          metronomeEnabled, metronomeVolume, modulationPreset,
          masterVolume, threw, workletNode, port, issued, applied,
          hostKeyMappings, loadedSounds, pages, activePageIndex, heldKeys,
          pageHistories, sharedMappings, pageJumpTimers, soundDrops, returned,
             clipboard, keyboardEnabled>>

VoiceIds == 0 .. (MAX_VOICES - 1)

\* this.sounds[i] = { samples: null, length: 0, loaded: false }
EmptySound == [defined |-> TRUE, samples |-> <<>>, length |-> 0, loaded |-> FALSE]

\* this.sounds[-1] before any load_sound(-1, ..): undefined
UndefinedSound == [defined |-> FALSE, samples |-> <<>>, length |-> 0, loaded |-> FALSE]

InitVoice == [soundIndex |-> 0, position |-> 0, active |-> FALSE, volume |-> 100,
              pitch |-> POS_UNIT, mode |-> SingleShot, groupId |-> 0, keyCode |-> 0,
              modulationEnabled |-> FALSE]

InitMapping == [soundIndex |-> 0, mode |-> SingleShot, overlapMode |-> Polyphonic,
                groupId |-> 0, volume |-> 100, pitchSemitones |-> 0,
                modulationEnabled |-> FALSE, hasSound |-> FALSE]

EngineInit ==
  /\ sounds = [i \in SlotDomain |-> IF i >= 0 THEN EmptySound ELSE UndefinedSound]
  /\ voices = [v \in VoiceIds |-> InitVoice]
  /\ keyMappings = [k \in KEYS |-> InitMapping]
  /\ bpm = 120
  /\ globalSamplePosition = 0
  /\ metronomeEnabled = FALSE
  /\ metronomeVolume = 50
  /\ modulationPreset = PresetNone
  /\ masterVolume = 100
  /\ threw = "none"

\* one page's history as getPageHistory creates it; a page without an entry
\* in the map stands for this value
EmptyHistory == [undoStack |-> <<>>, redoStack |-> <<>>]

\* ClipboardManager.clear(): content { type: Empty }, no source pad, not cut
EmptyClipboard == [type |-> "Empty", sound |-> FALSE, settings |-> <<>>, sourceKeyCode |-> -1, wasCut |-> FALSE]

\* private workletNode: AudioWorkletNode | null = null; nothing posted yet;
\* the managers' maps and lists are empty until the application initializes
\* them; no history, no timer, no suspended handler
HostInit ==
  /\ workletNode = FALSE
  /\ port = <<>>
  /\ issued = <<>>
  /\ applied = <<>>
  /\ hostKeyMappings = <<>>
  /\ loadedSounds = {}
  /\ pages = <<>>
  /\ activePageIndex = 0
  /\ heldKeys = {}
  /\ pageHistories = [p \in 0 .. (MAX_PAGES - 1) |-> EmptyHistory]
  /\ sharedMappings = [k \in KEYS |-> <<>>]
  /\ pageJumpTimers = <<>>
  /\ soundDrops = {}
  /\ returned = "none"
  /\ clipboard = EmptyClipboard
  /\ keyboardEnabled = TRUE

----------------------------------------------------------------------------
(* Helpers *)

Max(a, b) == IF a >= b THEN a ELSE b

Min(a, b) == IF a <= b THEN a ELSE b

\* mutant of Clamp: the lower bound is not applied
Clamp_NoLowerBound(lo, hi, x) == Min(hi, x)

\* Math.max(lo, Math.min(hi, x))
Clamp(lo, hi, x) == Max(lo, Min(hi, x))

\* this.keyMappings[keyCode] is an object (not undefined)
KeyDefined(keyCode) == keyCode \in 0 .. (KEY_TABLE_SIZE - 1)

\* this.sounds[soundIndex] is an object (not undefined)
SoundDefined(soundIndex) == soundIndex \in SlotDomain /\ sounds[soundIndex].defined

\* Math.pow(2, semitones / 12) in quarter units, semitones a multiple of 12
PitchMultiplier(semitones) == 2 ^ ((semitones + 24) \div 12)

ActiveVoices == {v \in VoiceIds : voices[v].active}

\* get_active_voice_count()
get_active_voice_count == Cardinality(ActiveVoices)

----------------------------------------------------------------------------
(* JsDspEngine: the commands *)

\* load_sound(soundIndex, samples)
load_sound(soundIndex, samples) ==
  /\ sounds' = IF soundIndex >= MAX_SOUNDS
                 THEN sounds
                 ELSE [sounds EXCEPT ![soundIndex] =
                         [defined |-> TRUE, samples |-> samples,
                          length |-> Len(samples), loaded |-> TRUE]]
  /\ threw' = "none"
  /\ UNCHANGED <<voices, keyMappings, bpm, globalSamplePosition, metronomeEnabled,
                 metronomeVolume, modulationPreset, masterVolume>>

\* the seven assignments of set_key_mapping that precede the one of hasSound
MappingFieldsWritten(mapping, soundIndex, mode, overlapMode, groupId, volume, pitchSemitones, modulationEnabled) ==
  [mapping EXCEPT !.soundIndex = soundIndex,
                  !.mode = mode,
                  !.overlapMode = overlapMode,
                  !.groupId = groupId,
                  !.volume = Clamp(0, 100, volume),
                  !.pitchSemitones = Clamp(-24, 24, pitchSemitones),
                  !.modulationEnabled = modulationEnabled]

\* set_key_mapping(keyCode, soundIndex, mode, overlapMode, groupId, volume,
\*                 pitchSemitones, modulationEnabled)
\* keyMappings[keyCode] undefined: the first assignment throws.
\* soundIndex < MAX_SOUNDS and sounds[soundIndex] undefined: reading .loaded
\* throws after the other seven fields were written.
set_key_mapping(keyCode, soundIndex, mode, overlapMode, groupId, volume, pitchSemitones, modulationEnabled) ==
  /\ IF ~KeyDefined(keyCode)
       THEN /\ keyMappings' = keyMappings
            /\ threw' = "command"
       ELSE LET written == MappingFieldsWritten(keyMappings[keyCode], soundIndex, mode,
                             overlapMode, groupId, volume, pitchSemitones,
                             modulationEnabled)
            IN  IF soundIndex < MAX_SOUNDS /\ ~SoundDefined(soundIndex)
                  THEN /\ keyMappings' = [keyMappings EXCEPT ![keyCode] = written]
                       /\ threw' = "command"
                  ELSE /\ keyMappings' = [keyMappings EXCEPT ![keyCode] =
                              [written EXCEPT !.hasSound =
                                 soundIndex < MAX_SOUNDS /\ sounds[soundIndex].loaded]]
                       /\ threw' = "none"
  /\ UNCHANGED <<sounds, voices, bpm, globalSamplePosition, metronomeEnabled,
                 metronomeVolume, modulationPreset, masterVolume>>

\* mutant of SetFields: the setter also clears hasSound
SetFields_ClearsHasSound(keyCode, updated) ==
  /\ IF ~KeyDefined(keyCode)
       THEN /\ keyMappings' = keyMappings
            /\ threw' = "command"
       ELSE /\ keyMappings' = [keyMappings EXCEPT ![keyCode] = [updated EXCEPT !.hasSound = FALSE]]
            /\ threw' = "none"
  /\ UNCHANGED <<sounds, voices, bpm, globalSamplePosition, metronomeEnabled,
                 metronomeVolume, modulationPreset, masterVolume>>

\* the body shared by the narrow setters: this.keyMappings[keyCode].f = ..
\* throws when keyMappings[keyCode] is undefined
SetFields(keyCode, updated) ==
  /\ IF ~KeyDefined(keyCode)
       THEN /\ keyMappings' = keyMappings
            /\ threw' = "command"
       ELSE /\ keyMappings' = [keyMappings EXCEPT ![keyCode] = updated]
            /\ threw' = "none"
  /\ UNCHANGED <<sounds, voices, bpm, globalSamplePosition, metronomeEnabled,
                 metronomeVolume, modulationPreset, masterVolume>>

\* the mapping a setter starts from (only used when the key is defined)
MappingOf(keyCode) == IF keyCode \in KEYS THEN keyMappings[keyCode] ELSE InitMapping

\* mutant of set_key_mode: the mode is also written to the voices of the key
set_key_mode_Live(keyCode, mode) ==
  /\ keyMappings' = [k \in KEYS |-> IF k = keyCode THEN [keyMappings[k] EXCEPT !.mode = mode] ELSE keyMappings[k]]
  /\ voices' = [v \in VoiceIds |-> IF voices[v].keyCode = keyCode THEN [voices[v] EXCEPT !.mode = mode] ELSE voices[v]]
  /\ threw' = "none"
  /\ UNCHANGED <<sounds, bpm, globalSamplePosition, metronomeEnabled,
                 metronomeVolume, modulationPreset, masterVolume>>

\* set_key_mode(keyCode, mode)
set_key_mode(keyCode, mode) ==
  SetFields(keyCode, [MappingOf(keyCode) EXCEPT !.mode = mode])

\* set_key_modulation(keyCode, enabled)
set_key_modulation(keyCode, enabled) ==
  SetFields(keyCode, [MappingOf(keyCode) EXCEPT !.modulationEnabled = enabled])

\* set_key_volume(keyCode, volume)
set_key_volume(keyCode, volume) ==
  SetFields(keyCode, [MappingOf(keyCode) EXCEPT !.volume = Clamp(0, 100, volume)])

\* set_key_pitch(keyCode, semitones)
set_key_pitch(keyCode, semitones) ==
  SetFields(keyCode, [MappingOf(keyCode) EXCEPT !.pitchSemitones = Clamp(-24, 24, semitones)])

\* set_key_overlap(keyCode, mode, groupId)
set_key_overlap(keyCode, mode, groupId) ==
  SetFields(keyCode, [MappingOf(keyCode) EXCEPT !.overlapMode = mode, !.groupId = groupId])

\* mutant of MonophonicCut: the overlap test is inverted
MonophonicCut_Inverted(vs, mapping) ==
  IF mapping.overlapMode = Polyphonic
    THEN [v \in DOMAIN vs |->
            IF vs[v].active /\ vs[v].groupId = mapping.groupId
              THEN [vs[v] EXCEPT !.active = FALSE]
              ELSE vs[v]]
    ELSE vs

\* mutant of MonophonicCut: the group of the voice is not looked at
MonophonicCut_AnyGroup(vs, mapping) ==
  IF mapping.overlapMode = Monophonic
    THEN [v \in VoiceIds |-> [vs[v] EXCEPT !.active = FALSE]]
    ELSE vs

\* note_on, first loop: a Monophonic mapping cuts every active voice of its group
MonophonicCut(vs, mapping) ==
  IF mapping.overlapMode = Monophonic
    THEN [v \in VoiceIds |->
            IF vs[v].active /\ vs[v].groupId = mapping.groupId
              THEN [vs[v] EXCEPT !.active = FALSE]
              ELSE vs[v]]
    ELSE vs

\* note_on, second loop: the indices of the voices that are not active
FreeVoices(vs) == {v \in VoiceIds : ~vs[v].active}

\* the lowest index of a nonempty set of voice indices
FirstOf(S) == CHOOSE v \in S : \A w \in S : v <= w

\* note_on, body of the second loop: the voice object written from the mapping
StartedVoice(mapping, keyCode) ==
  [soundIndex |-> mapping.soundIndex,
   position |-> 0,
   active |-> TRUE,
   volume |-> mapping.volume,
   pitch |-> PitchMultiplier(mapping.pitchSemitones),
   mode |-> mapping.mode,
   groupId |-> mapping.groupId,
   keyCode |-> keyCode,
   modulationEnabled |-> mapping.modulationEnabled]

\* mutant of VoicesAfterNoteOn: with no free voice, voice 0 is stolen
VoicesAfterNoteOn_Steal(keyCode) ==
  LET mapping == keyMappings[keyCode]
      cut == MonophonicCut(voices, mapping)
  IN  IF ~mapping.hasSound THEN voices
      ELSE IF FreeVoices(cut) = {} THEN [cut EXCEPT ![0] = StartedVoice(mapping, keyCode)]
      ELSE [cut EXCEPT ![FirstOf(FreeVoices(cut))] = StartedVoice(mapping, keyCode)]

\* mutant of VoicesAfterNoteOn: the monophonic cut precedes the hasSound test
VoicesAfterNoteOn_CutFirst(keyCode) ==
  LET mapping == keyMappings[keyCode]
      cut == MonophonicCut(voices, mapping)
  IN  IF ~mapping.hasSound THEN cut
      ELSE IF FreeVoices(cut) = {} THEN cut
      ELSE [cut EXCEPT ![FirstOf(FreeVoices(cut))] = StartedVoice(mapping, keyCode)]

\* mutant of VoicesAfterNoteOn: the free voice is looked for before the cut
VoicesAfterNoteOn_AllocateFirst(keyCode) ==
  LET mapping == keyMappings[keyCode]
      started == IF FreeVoices(voices) = {} THEN voices
                 ELSE [voices EXCEPT ![FirstOf(FreeVoices(voices))] = StartedVoice(mapping, keyCode)]
  IN  IF ~mapping.hasSound THEN voices
      ELSE [v \in VoiceIds |->
              IF voices[v].active /\ mapping.overlapMode = Monophonic /\ voices[v].groupId = mapping.groupId
                THEN [voices[v] EXCEPT !.active = FALSE]
                ELSE started[v]]

\* the voices after note_on(keyCode) for a defined key
VoicesAfterNoteOn(keyCode) ==
  LET mapping == keyMappings[keyCode]
      cut == MonophonicCut(voices, mapping)
  IN  IF ~mapping.hasSound THEN voices
      ELSE IF FreeVoices(cut) = {} THEN cut
      ELSE [cut EXCEPT ![FirstOf(FreeVoices(cut))] = StartedVoice(mapping, keyCode)]

\* note_on(keyCode); keyMappings[keyCode] undefined: reading .hasSound throws
note_on(keyCode) ==
  /\ IF ~KeyDefined(keyCode)
       THEN /\ voices' = voices
            /\ threw' = "command"
       ELSE /\ voices' = VoicesAfterNoteOn(keyCode)
            /\ threw' = "none"
  /\ UNCHANGED <<sounds, keyMappings, bpm, globalSamplePosition, metronomeEnabled,
                 metronomeVolume, modulationPreset, masterVolume>>

\* mutant of note_off: the mode of the voice is not looked at
note_off_AnyMode(keyCode) ==
  /\ voices' = [v \in VoiceIds |->
                  IF voices[v].active /\ voices[v].keyCode = keyCode
                    THEN [voices[v] EXCEPT !.active = FALSE]
                    ELSE voices[v]]
  /\ threw' = "none"
  /\ UNCHANGED <<sounds, keyMappings, bpm, globalSamplePosition, metronomeEnabled,
                 metronomeVolume, modulationPreset, masterVolume>>

\* note_off(keyCode)
note_off(keyCode) ==
  /\ voices' = [v \in VoiceIds |->
                  IF voices[v].active /\ voices[v].keyCode = keyCode /\ voices[v].mode = Loop
                    THEN [voices[v] EXCEPT !.active = FALSE]
                    ELSE voices[v]]
  /\ threw' = "none"
  /\ UNCHANGED <<sounds, keyMappings, bpm, globalSamplePosition, metronomeEnabled,
                 metronomeVolume, modulationPreset, masterVolume>>

\* mutant of PanicState: the loop over the voices starts at voice 1
PanicState_SkipsFirstVoice(st) ==
  [voices |-> [v \in VoiceIds |-> IF v = 0 THEN st.voices[v]
                                  ELSE [st.voices[v] EXCEPT !.active = FALSE]],
   gsp |-> 0]

\* the voices and the sample position after panic()
PanicState(st) ==
  [voices |-> [v \in VoiceIds |-> [st.voices[v] EXCEPT !.active = FALSE]],
   gsp |-> 0]

\* panic()
panic ==
  LET done == PanicState([voices |-> voices, gsp |-> globalSamplePosition])
  IN  /\ voices' = done.voices
      /\ globalSamplePosition' = done.gsp
      /\ threw' = "none"
      /\ UNCHANGED <<sounds, keyMappings, bpm, metronomeEnabled, metronomeVolume,
                     modulationPreset, masterVolume>>

\* set_bpm(bpm)
set_bpm(newBpm) ==
  /\ bpm' = Clamp(20, 300, newBpm)
  /\ threw' = "none"
  /\ UNCHANGED <<sounds, voices, keyMappings, globalSamplePosition, metronomeEnabled,
                 metronomeVolume, modulationPreset, masterVolume>>

\* set_metronome(enabled, volume)
set_metronome(enabled, volume) ==
  /\ metronomeEnabled' = enabled
  /\ metronomeVolume' = Clamp(0, 100, volume)
  /\ threw' = "none"
  /\ UNCHANGED <<sounds, voices, keyMappings, bpm, globalSamplePosition,
                 modulationPreset, masterVolume>>

\* set_modulation_preset(preset)
set_modulation_preset(preset) ==
  /\ modulationPreset' = preset
  /\ threw' = "none"
  /\ UNCHANGED <<sounds, voices, keyMappings, bpm, globalSamplePosition,
                 metronomeEnabled, metronomeVolume, masterVolume>>

\* set_master_volume(volume)
set_master_volume(volume) ==
  /\ masterVolume' = Clamp(0, 100, volume)
  /\ threw' = "none"
  /\ UNCHANGED <<sounds, voices, keyMappings, bpm, globalSamplePosition,
                 metronomeEnabled, metronomeVolume, modulationPreset>>

\* reset_timing()
reset_timing ==
  /\ globalSamplePosition' = 0
  /\ threw' = "none"
  /\ UNCHANGED <<sounds, voices, keyMappings, bpm, metronomeEnabled, metronomeVolume,
                 modulationPreset, masterVolume>>

----------------------------------------------------------------------------
(* JsDspEngine.process: one block of BLOCK_SIZE frames.  A render state is *)
(* [voices, gsp, reads, threw]: the voices, globalSamplePosition, the      *)
(* sample reads made so far and whether a TypeError ended the call.        *)

\* Math.floor(this.sampleRate * 60 / this.bpm)
SamplesPerBeat == (SAMPLE_RATE * 60) \div bpm

\* Math.round(num / den) for num >= 0, den > 0
RoundDiv(num, den) == (2 * num + den) \div (2 * den)

\* targetLength of the BPM-sync check, in quarter samples; 0 also stands for
\* the NaN that samplesPerEighth = 0 produces (no comparison with it holds)
TargetLength(length, pitch) ==
  IF SamplesPerBeat = 0
    THEN 0
    ELSE RoundDiv(2 * POS_UNIT * length, pitch * SamplesPerBeat) * (2 * SamplesPerBeat)

\* mutant of InterpolationReads: samples[posFloor + 1] is read without the
\* test against the length
InterpolationReads_Unguarded(frame, v, slot, posFloor, length) ==
  {[frame |-> frame, voice |-> v, slot |-> slot, index |-> posFloor],
   [frame |-> frame, voice |-> v, slot |-> slot, index |-> posFloor + 1]}

\* the reads of the linear interpolation: samples[posFloor] and, when it is
\* inside the buffer, samples[posFloor + 1]
InterpolationReads(frame, v, slot, posFloor, length) ==
  {[frame |-> frame, voice |-> v, slot |-> slot, index |-> posFloor]}
    \cup (IF posFloor + 1 < length
            THEN {[frame |-> frame, voice |-> v, slot |-> slot, index |-> posFloor + 1]}
            ELSE {})

\* mutant of BufferEnd: a voice that runs past its buffer goes back, whatever its mode
BufferEnd_NeverStops(st, v, length) ==
  [st EXCEPT !.voices[v].position = @ - POS_UNIT * length]

\* mutant of BufferEnd: a voice that runs past its buffer stops, looping or not
BufferEnd_StopsLoop(st, v, length) == [st EXCEPT !.voices[v].active = FALSE]

\* the branch posFloor >= sound.length: a Loop voice goes back by the buffer
\* length, any other voice is deactivated; neither mixes a sample this frame
BufferEnd(st, v, length) ==
  IF st.voices[v].mode = Loop
    THEN [st EXCEPT !.voices[v].position = @ - POS_UNIT * length]
    ELSE [st EXCEPT !.voices[v].active = FALSE]

\* body of the voice loop for voice v in one frame
RenderVoice(st, v, frame) ==
  LET voice == st.voices[v]
  IN
  IF ~voice.active THEN st
  ELSE IF ~SoundDefined(voice.soundIndex) THEN [st EXCEPT !.threw = TRUE]
  ELSE
    LET sound == sounds[voice.soundIndex]
        posFloor == voice.position \div POS_UNIT
        targetLength == TargetLength(sound.length, voice.pitch)
    IN
    IF ~sound.loaded
      THEN [st EXCEPT !.voices[v].active = FALSE]
    ELSE IF posFloor >= sound.length
      THEN BufferEnd(st, v, sound.length)
    ELSE IF voice.mode = Loop /\ targetLength > 0 /\ voice.position >= targetLength
      THEN [st EXCEPT !.voices[v].position = voice.position % targetLength]
    ELSE [st EXCEPT !.voices[v].position = voice.position + voice.pitch,
                    !.reads = @ \cup InterpolationReads(frame, v, voice.soundIndex,
                                                        posFloor, sound.length)]

\* the voice loop of one frame, from voice v on; a TypeError ends it
RECURSIVE RenderVoices(_, _, _)
RenderVoices(st, v, frame) ==
  IF st.threw \/ v = MAX_VOICES
    THEN st
    ELSE RenderVoices(RenderVoice(st, v, frame), v + 1, frame)

\* the frame loop, from frame on; globalSamplePosition++ ends each frame
RECURSIVE RenderFrames(_, _)
RenderFrames(st, frame) ==
  IF st.threw \/ frame = BLOCK_SIZE
    THEN st
    ELSE LET mixed == RenderVoices(st, 0, frame)
         IN  IF mixed.threw
               THEN mixed
               ELSE RenderFrames([mixed EXCEPT !.gsp = @ + 1], frame + 1)

\* the render state at the return (or throw) of process() called in this state
RenderBlock ==
  RenderFrames([voices |-> voices, gsp |-> globalSamplePosition,
                reads |-> {}, threw |-> FALSE], 0)

\* process(output)
process ==
  LET done == RenderBlock
  IN  /\ voices' = done.voices
      /\ globalSamplePosition' = done.gsp
      /\ threw' = (IF done.threw THEN "process" ELSE "none")
      /\ UNCHANGED <<sounds, keyMappings, bpm, metronomeEnabled, metronomeVolume,
                     modulationPreset, masterVolume>>

----------------------------------------------------------------------------
(* QeyloopProcessor: handleMessage dispatches one port message to the      *)
(* engine; process renders one block.  Both run to completion on the       *)
(* audio thread.                                                           *)

\* The performance scenario: sounds are loaded, keys are mapped and played.
\* Volume, pitch, modulation flag and transport commands carry one value each
\* (150 percent is clamped to the initial 100).

LoadSound ==
  /\ \E i \in SlotArgs, b \in BufferArgs : load_sound(i, b)
  /\ UNCHANGED hostVars

SetKeyMapping ==
  /\ \/ \E m \in ModeArgs, og \in OverlapGroupArgs :
          set_key_mapping(KeyA, 0, m, og[1], og[2], 150, 0, FALSE)
     \/ set_key_mapping(KeyB, 0, Loop, Monophonic, 1, 150, 0, FALSE)
  /\ UNCHANGED hostVars

SetKeyMode ==
  /\ \E m \in ModeArgs : set_key_mode(KeyA, m)
  /\ UNCHANGED hostVars

SetKeyVolume ==
  /\ \E k \in KEYS : set_key_volume(k, 150)
  /\ UNCHANGED hostVars

SetKeyPitch ==
  /\ \E k \in KEYS : set_key_pitch(k, 0)
  /\ UNCHANGED hostVars

SetKeyModulation ==
  /\ \E k \in KEYS : set_key_modulation(k, FALSE)
  /\ UNCHANGED hostVars

SetKeyOverlap ==
  /\ \E og \in OverlapGroupArgs : set_key_overlap(KeyA, og[1], og[2])
  /\ UNCHANGED hostVars

NoteOn ==
  /\ \E k \in KEYS : note_on(k)
  /\ UNCHANGED hostVars

NoteOff ==
  /\ \E k \in KEYS : note_off(k)
  /\ UNCHANGED hostVars

Panic ==
  /\ panic
  /\ UNCHANGED hostVars

SetBpm ==
  /\ set_bpm(120)
  /\ UNCHANGED hostVars

SetMetronome ==
  /\ set_metronome(FALSE, 50)
  /\ UNCHANGED hostVars

SetModulationPreset ==
  /\ set_modulation_preset(PresetNone)
  /\ UNCHANGED hostVars

SetMasterVolume ==
  /\ set_master_volume(150)
  /\ UNCHANGED hostVars

ResetTiming ==
  /\ reset_timing
  /\ UNCHANGED hostVars

Process ==
  /\ globalSamplePosition < MaxSamplePosition /\ process
  /\ UNCHANGED hostVars

Init == EngineInit /\ HostInit

Next ==
  \/ LoadSound
  \/ SetKeyMapping
  \/ SetKeyMode
  \/ SetKeyVolume
  \/ SetKeyPitch
  \/ SetKeyModulation
  \/ SetKeyOverlap
  \/ NoteOn
  \/ NoteOff
  \/ Panic
  \/ SetBpm
  \/ SetMetronome
  \/ SetModulationPreset
  \/ SetMasterVolume
  \/ ResetTiming
  \/ Process

Spec == Init /\ [][Next]_vars

----------------------------------------------------------------------------
(* The same engine driven with every kind of argument: a key code beyond   *)
(* the table, the slot -1 that the host sends when a pad's audio is cut    *)
(* (clearPadSound), and the slot MAX_SOUNDS.                               *)

AnyKeyArgs == {KeyA, BadKey}

AnySlotArgs == {-1, 0, MAX_SOUNDS}

LoadAnySound ==
  /\ \E i \in AnySlotArgs, b \in BufferArgs : load_sound(i, b)
  /\ UNCHANGED hostVars

SetAnyKeyMapping ==
  /\ \E k \in AnyKeyArgs, i \in AnySlotArgs :
       set_key_mapping(k, i, SingleShot, Polyphonic, 0, 150, 0, FALSE)
  /\ UNCHANGED hostVars

SetAnyKeyMode ==
  /\ \E k \in AnyKeyArgs : set_key_mode(k, Loop)
  /\ UNCHANGED hostVars

SetAnyKeyVolume ==
  /\ \E k \in AnyKeyArgs : set_key_volume(k, 150)
  /\ UNCHANGED hostVars

SetAnyKeyPitch ==
  /\ \E k \in AnyKeyArgs : set_key_pitch(k, 0)
  /\ UNCHANGED hostVars

SetAnyKeyModulation ==
  /\ \E k \in AnyKeyArgs : set_key_modulation(k, FALSE)
  /\ UNCHANGED hostVars

SetAnyKeyOverlap ==
  /\ \E k \in AnyKeyArgs : set_key_overlap(k, Polyphonic, 0)
  /\ UNCHANGED hostVars

AnyNoteOn ==
  /\ \E k \in AnyKeyArgs : note_on(k)
  /\ UNCHANGED hostVars

AnyNoteOff ==
  /\ \E k \in AnyKeyArgs : note_off(k)
  /\ UNCHANGED hostVars

AnyPanic ==
  /\ panic
  /\ UNCHANGED hostVars

SetAnyBpm ==
  /\ set_bpm(400)
  /\ UNCHANGED hostVars

AnyProcess ==
  /\ globalSamplePosition < MaxSamplePosition
  /\ process
  /\ UNCHANGED hostVars

NextAnyInput ==
  \/ LoadAnySound
  \/ SetAnyKeyMapping
  \/ SetAnyKeyMode
  \/ SetAnyKeyVolume
  \/ SetAnyKeyPitch
  \/ SetAnyKeyModulation
  \/ SetAnyKeyOverlap
  \/ AnyNoteOn
  \/ AnyNoteOff
  \/ AnyPanic
  \/ SetAnyBpm
  \/ AnyProcess

SpecAnyInput == Init /\ [][NextAnyInput]_vars

----------------------------------------------------------------------------
(* The host side: the AudioEngine methods post messages to the worklet's   *)
(* port; the worklet handles them one at a time, in the order posted,      *)
(* between its process() calls.                                            *)

\* the host calls at most this many AudioEngine methods
MaxIssued == 3

\* PlaybackType.Gate
Gate == 0

Message(type, data) == [type |-> type, data |-> data]

\* AudioEngine.postMessage(message): posts only if the worklet node exists
postMessage(message) ==
  /\ port' = IF workletNode THEN Append(port, message) ELSE port
  /\ issued' = Append(issued, message)
  /\ UNCHANGED <<workletNode, applied>>
  /\ UNCHANGED <<hostKeyMappings, pages, activePageIndex, heldKeys>>
  /\ UNCHANGED editVars
  /\ UNCHANGED engineVars

\* AudioEngine.initialize(): creates the worklet node
initialize ==
  /\ ~workletNode
  /\ workletNode' = TRUE
  /\ UNCHANGED <<port, issued, applied>>
  /\ UNCHANGED engineVars

\* AudioEngine.loadSoundFromSamples(index, name, samples)
loadSoundFromSamples(index, samples) ==
  /\ loadedSounds' = loadedSounds \cup {index}
  /\ postMessage(Message("loadSound", <<index, samples>>))

\* AudioEngine.noteOn(keyCode)
noteOn(keyCode) ==
  /\ postMessage(Message("noteOn", <<keyCode>>))
  /\ UNCHANGED loadedSounds

\* AudioEngine.noteOff(keyCode)
noteOff(keyCode) ==
  /\ postMessage(Message("noteOff", <<keyCode>>))
  /\ UNCHANGED loadedSounds

\* AudioEngine.panic()
hostPanic ==
  /\ postMessage(Message("panic", <<>>))
  /\ UNCHANGED loadedSounds

\* AudioEngine.setKeyMapping(mapping)
setKeyMapping(keyCode, soundIndex, mode, playbackType, overlapMode, groupId, volume, pitchSemitones, modulationEnabled) ==
  /\ postMessage(Message("setKeyMapping",
                         <<keyCode, soundIndex, mode, overlapMode, groupId, volume,
                           pitchSemitones, modulationEnabled, playbackType>>))
  /\ UNCHANGED loadedSounds

\* AudioEngine.setKeyPlaybackType(keyCode, playbackType)
setKeyPlaybackType(keyCode, playbackType) ==
  /\ postMessage(Message("setKeyPlaybackType", <<keyCode, playbackType>>))
  /\ UNCHANGED loadedSounds

\* the message types that have a case calling the engine in handleMessage
\* (of those the model posts)
HandledTypes == {"noteOn", "noteOff", "loadSound", "setKeyMapping", "setKeyMode",
                 "setModulationPreset", "panic"}

\* QeyloopProcessor.handleMessage(event) for the oldest message of the port;
\* a type without a case falls through the switch
handleMessage ==
  /\ port # <<>>
  /\ LET type == Head(port).type
         data == Head(port).data
     IN  /\ CASE type = "noteOn" -> note_on(data[1])
              [] type = "noteOff" -> note_off(data[1])
              [] type = "loadSound" -> load_sound(data[1], data[2])
              [] type = "setKeyMapping" ->
                   set_key_mapping(data[1], data[2], data[3], data[4], data[5],
                                   data[6], data[7], data[8])
              [] type = "setKeyMode" -> set_key_mode(data[1], data[2])
              [] type = "setModulationPreset" -> set_modulation_preset(data[1])
              [] type = "panic" -> panic
              [] OTHER -> UNCHANGED engineVars
         /\ applied' = IF type \in HandledTypes THEN Append(applied, Head(port)) ELSE applied
  /\ port' = Tail(port)
  /\ UNCHANGED <<workletNode, issued>>
  /\ UNCHANGED padVars

Initialize ==
  /\ initialize
  /\ UNCHANGED padVars

HostLoadSound ==
  /\ Len(issued) < MaxIssued
  /\ loadSoundFromSamples(0, Buffer(MaxLen))

HostSetKeyMapping ==
  /\ Len(issued) < MaxIssued
  /\ setKeyMapping(KeyA, 0, Loop, Gate, Polyphonic, 0, 100, 0, FALSE)

HostSetKeyPlaybackType ==
  /\ Len(issued) < MaxIssued
  /\ setKeyPlaybackType(KeyA, Gate)

HostNoteOn ==
  /\ Len(issued) < MaxIssued
  /\ noteOn(KeyA)

HostNoteOff ==
  /\ Len(issued) < MaxIssued
  /\ noteOff(KeyA)

HostPanic ==
  /\ Len(issued) < MaxIssued
  /\ hostPanic

HandleMessage == handleMessage

WorkletProcess ==
  /\ globalSamplePosition < MaxSamplePosition
  /\ process
  /\ UNCHANGED hostVars

NextHost ==
  \/ Initialize
  \/ HostLoadSound
  \/ HostSetKeyMapping
  \/ HostSetKeyPlaybackType
  \/ HostNoteOn
  \/ HostNoteOff
  \/ HostPanic
  \/ HandleMessage
  \/ WorkletProcess

SpecHost == Init /\ [][NextHost]_vars

----------------------------------------------------------------------------
(* The tempo scenario: one key plays buffers of every length up to MaxLen, *)
(* looping or not, at the initial tempo and at 80 bpm, where an eighth     *)
(* note is one and a half samples and a buffer of one sample has a         *)
(* targetLength above its length.                                          *)

LoopLoadSound ==
  /\ \E n \in 1 .. MaxLen : load_sound(0, Buffer(n))
  /\ UNCHANGED hostVars

LoopSetBpm ==
  /\ set_bpm(80)
  /\ UNCHANGED hostVars

LoopSetKeyMapping ==
  /\ \E m \in ModeArgs : set_key_mapping(KeyA, 0, m, Polyphonic, 0, 100, 0, FALSE)
  /\ UNCHANGED hostVars

LoopNoteOn ==
  /\ note_on(KeyA)
  /\ UNCHANGED hostVars

LoopNoteOff ==
  /\ note_off(KeyA)
  /\ UNCHANGED hostVars

LoopResetTiming ==
  /\ reset_timing
  /\ UNCHANGED hostVars

LoopProcess ==
  /\ globalSamplePosition < MaxSamplePosition
  /\ process
  /\ UNCHANGED hostVars

NextLoop ==
  \/ LoopLoadSound
  \/ LoopSetBpm
  \/ LoopSetKeyMapping
  \/ LoopNoteOn
  \/ LoopNoteOff
  \/ LoopResetTiming
  \/ LoopProcess

SpecLoop == Init /\ [][NextLoop]_vars

----------------------------------------------------------------------------
(* The pads: the keyboard handler, the mode manager, the page manager and  *)
(* the edit commands, which call the AudioEngine.  Every handler runs to   *)
(* completion on the main thread and posts its messages in order; the      *)
(* worklet handles them later, one at a time.  The modulation preset stays *)
(* None and no pad has a page jump.                                        *)

\* PlaybackType.OneShot
OneShot == 1

\* the playbackType of a mapping made by createDefaultKeyMapping: the field
\* is absent (undefined)
NoPlaybackType == 2

\* at most this many messages wait in the port when a handler starts
MaxQueued == 1

\* the messages of a session
MaxPadIssued == 5


\* MAX_HISTORY_SIZE: the entries a stack of the edit history keeps
MAX_HISTORY_SIZE == 2

\* createDefaultKeyMapping(keyCode)
createDefaultKeyMapping == [soundIndex |-> 0, mode |-> SingleShot, playbackType |-> NoPlaybackType, overlapMode |-> Polyphonic, groupId |-> 0, volume |-> 100, pitchSemitones |-> 0, modulationEnabled |-> FALSE, hasSound |-> FALSE]

\* PageManager.createEmptyPage(index)
createEmptyPage(index) == [keyMappings |-> [k \in KEYS |-> createDefaultKeyMapping], keySoundIndices |-> <<>>, sounds |-> {}, nextSoundIndex |-> index * SLOTS_PER_PAGE, padPageJumps |-> <<>>]

\* pageStart and pageEnd of a page
pageStart(index) == index * SLOTS_PER_PAGE

pageEnd(index) == pageStart(index) + SLOTS_PER_PAGE

\* Map.set(key, value) and Map.delete(key) on a map held as a function
MapSet(map, key, value) == [k \in DOMAIN map \cup {key} |-> IF k = key THEN value ELSE map[k]]

MapDelete(map, key) == [k \in DOMAIN map \ {key} |-> map[k]]

\* the elements of a finite set of numbers in increasing order
RECURSIVE Ordered(_)
Ordered(S) == IF S = {} THEN <<>> ELSE LET least == CHOOSE x \in S : \A y \in S : x <= y IN <<least>> \o Ordered(S \ {least})

\* AudioEngine.postMessage, for the messages of one handler in order
postMessages(messages) ==
  /\ port' = IF workletNode THEN port \o messages ELSE port
  /\ issued' = issued \o messages

\* the message AudioEngine.setKeyMapping(mapping) posts
KeyMappingMessage(keyCode, mapping) == Message("setKeyMapping", <<keyCode, mapping.soundIndex, mapping.mode, mapping.overlapMode, mapping.groupId, mapping.volume, mapping.pitchSemitones, mapping.modulationEnabled, mapping.playbackType>>)

\* what a pad handler leaves alone: the engine runs on the audio thread
EngineFrame == UNCHANGED <<workletNode, applied>> /\ UNCHANGED engineVars

\* and most handlers leave the clipboard and the keyboard switch alone
PadFrame == EngineFrame /\ UNCHANGED <<clipboard, keyboardEnabled>>

----------------------------------------------------------------------------
(* The edit history.  A history entry holds, for the pad of the action, a  *)
(* snapshot taken before and one taken after.  restoreStates hands the     *)
(* snapshot's mapping object itself to the mode manager, which changes its *)
(* mapping objects in place: sharedMappings[k] = <<id, side>> says that    *)
(* the mode manager's mapping of key k is the mapping object of that       *)
(* snapshot of the entry id.  recordedBefore and recordedAfter keep the    *)
(* two snapshots as they were when the action was recorded.                *)

\* HistoryManager.createPadSnapshot(keyCode) for the mode manager's mappings
\* and the active page given
createPadSnapshot(keyCode, mappings, page) ==
  [mapping |-> mappings[keyCode],
   sound |-> mappings[keyCode].hasSound /\ mappings[keyCode].soundIndex \in page.sounds,
   pageJumpTarget |-> IF keyCode \in DOMAIN page.padPageJumps THEN page.padPageJumps[keyCode] ELSE -1]

\* the entries of a stack as a set
StackEntries(stack) == {stack[i] : i \in 1 .. Len(stack)}

\* the ids of the entries that the stacks hold
EntryIds(histories) == UNION {{e.id : e \in StackEntries(histories[p].undoStack) \cup StackEntries(histories[p].redoStack)} : p \in DOMAIN histories}

\* the identity of a new entry object
NewEntryId(histories) == CHOOSE n \in 1 .. (Cardinality(EntryIds(histories)) + 1) : n \notin EntryIds(histories)

\* mutant of KeepNewest: the stack is not shortened
KeepNewest_Unbounded(stack) == stack

\* while (stack.length > MAX_HISTORY_SIZE) stack.shift()
KeepNewest(stack) == IF Len(stack) > MAX_HISTORY_SIZE THEN SubSeq(stack, Len(stack) - MAX_HISTORY_SIZE + 1, Len(stack)) ELSE stack

\* the entry recordAction builds for an action on the pads affectedPads,
\* given the snapshots of each before and after
EntryOfPads(id, actionType, affectedPads, befores, afters) == [id |-> id, actionType |-> actionType, affectedPads |-> affectedPads, beforeState |-> befores, afterState |-> afters, recordedBefore |-> befores, recordedAfter |-> afters]

\* the entry recordAction builds for an action on the pad keyCode
HistoryEntry(id, actionType, keyCode, before, after) == EntryOfPads(id, actionType, <<keyCode>>, [k \in {keyCode} |-> before], [k \in {keyCode} |-> after])

\* mutant of recordAction: the redo stack is kept
recordAction_KeepsRedo(histories, pageIndex, entry) == [histories EXCEPT ![pageIndex].undoStack = KeepNewest(Append(@, entry))]

\* HistoryManager.canRedo()
canRedo == pageHistories[activePageIndex].redoStack # <<>>

\* HistoryManager.recordAction on the history of page pageIndex: the
\* histories after the call
recordAction(histories, pageIndex, entry) == [histories EXCEPT ![pageIndex] = [undoStack |-> KeepNewest(Append(@.undoStack, entry)), redoStack |-> <<>>]]

\* a snapshot's mapping object outside every stack is shared with no entry
LiveShared(shared, histories) == [k \in KEYS |-> IF shared[k] # <<>> /\ shared[k][1] \in EntryIds(histories) THEN shared[k] ELSE <<>>]

\* an entry after the mapping object of its snapshot ref was changed in place
TouchedEntry(entry, ref, keyCode, mapping) ==
  IF ref = <<>> \/ entry.id # ref[1] \/ keyCode \notin DOMAIN entry.beforeState THEN entry
  ELSE IF ref[2] = "before" THEN [entry EXCEPT !.beforeState[keyCode].mapping = mapping]
  ELSE [entry EXCEPT !.afterState[keyCode].mapping = mapping]

\* the histories after the mode manager changed the mapping object of
\* keyCode in place (mapping.mode = .., mapping.hasSound = ..)
ChangedInPlace(histories, ref, keyCode, mapping) ==
  [p \in DOMAIN histories |->
     [undoStack |-> [i \in 1 .. Len(histories[p].undoStack) |-> TouchedEntry(histories[p].undoStack[i], ref, keyCode, mapping)],
      redoStack |-> [i \in 1 .. Len(histories[p].redoStack) |-> TouchedEntry(histories[p].redoStack[i], ref, keyCode, mapping)]]]

----------------------------------------------------------------------------
(* The handlers *)

\* initializeApp(): the audio engine first, then the managers
initializeApp ==
  /\ initialize
  /\ hostKeyMappings' = [k \in KEYS |-> createDefaultKeyMapping]
  /\ pages' = [p \in {0} |-> createEmptyPage(0)]
  /\ activePageIndex' = 0
  /\ UNCHANGED <<loadedSounds, heldKeys>>
  /\ UNCHANGED editVars

\* PageManager.getPadPageJump(keyCode)
getPadPageJump(keyCode) ==
  IF activePageIndex \in DOMAIN pages /\ keyCode \in DOMAIN pages[activePageIndex].padPageJumps
    THEN pages[activePageIndex].padPageJumps[keyCode]
    ELSE -1

\* PageManager.checkPadJump(keyCode)
checkPadJump(keyCode) ==
  IF getPadPageJump(keyCode) >= 0 /\ getPadPageJump(keyCode) # activePageIndex
    THEN getPadPageJump(keyCode)
    ELSE -1

\* mutant of handleKeyDown: a key that is already held is not ignored
handleKeyDown_Repeats(keyCode) ==
  /\ keyboardEnabled
  /\ heldKeys' = heldKeys \cup {keyCode}
  /\ postMessages(<<Message("noteOn", <<keyCode>>)>>)
  /\ pageJumpTimers' = IF checkPadJump(keyCode) >= 0 THEN Append(pageJumpTimers, checkPadJump(keyCode)) ELSE pageJumpTimers
  /\ UNCHANGED <<hostKeyMappings, loadedSounds, pages, activePageIndex>>
  /\ UNCHANGED <<pageHistories, sharedMappings, soundDrops, returned>>
  /\ PadFrame

\* KeyboardHandler.handleKeyDown for a launchpad key outside a typing context
\* and without hotkey modifiers: it returns at once when the handler is
\* disabled or the key is already held (key repeat); executePageJump
\* schedules the switch to the pad's jump target
handleKeyDown(keyCode) ==
  /\ keyboardEnabled
  /\ keyCode \notin heldKeys
  /\ heldKeys' = heldKeys \cup {keyCode}
  /\ postMessages(<<Message("noteOn", <<keyCode>>)>>)
  /\ pageJumpTimers' = IF checkPadJump(keyCode) >= 0 THEN Append(pageJumpTimers, checkPadJump(keyCode)) ELSE pageJumpTimers
  /\ UNCHANGED <<hostKeyMappings, loadedSounds, pages, activePageIndex>>
  /\ UNCHANGED <<pageHistories, sharedMappings, soundDrops, returned>>
  /\ PadFrame

\* KeyboardHandler.handleKeyUp for a launchpad key, held or not: it returns
\* at once when the handler is disabled
handleKeyUp(keyCode) ==
  /\ keyboardEnabled
  /\ heldKeys' = heldKeys \ {keyCode}
  /\ postMessages(<<Message("noteOff", <<keyCode>>)>>)
  /\ UNCHANGED <<hostKeyMappings, loadedSounds, pages, activePageIndex>>
  /\ UNCHANGED editVars
  /\ PadFrame

\* the orders a for-of loop may visit the keys of a Set in: the Set keeps
\* insertion order, which heldKeys as a set does not record
Orderings(S) == {order \in [1 .. Cardinality(S) -> S] : \A i, j \in 1 .. Cardinality(S) : order[i] = order[j] => i = j}

\* the noteOff messages of KeyboardHandler.releaseAllKeys, one per held key
ReleaseMessages(order) == [i \in DOMAIN order |-> Message("noteOff", <<order[i]>>)]

\* mutant of ReleaseHeld: the held keys are forgotten without a noteOff
ReleaseHeld_Silent ==
  /\ heldKeys' = {}
  /\ postMessages(<<>>)
  /\ UNCHANGED <<hostKeyMappings, loadedSounds, pages, activePageIndex>>
  /\ UNCHANGED <<pageHistories, sharedMappings, pageJumpTimers, soundDrops, returned, clipboard>>
  /\ EngineFrame

\* the body of KeyboardHandler.releaseAllKeys: noteOff for every held key,
\* then heldKeys.clear()
ReleaseHeld ==
  /\ heldKeys' = {}
  /\ \E order \in Orderings(heldKeys) : postMessages(ReleaseMessages(order))
  /\ UNCHANGED <<hostKeyMappings, loadedSounds, pages, activePageIndex>>
  /\ UNCHANGED <<pageHistories, sharedMappings, pageJumpTimers, soundDrops, returned, clipboard>>
  /\ EngineFrame

\* KeyboardHandler.releaseAllKeys(), called on window blur, when the tab
\* becomes hidden and before unload; it does not look at enabled
releaseAllKeys ==
  /\ ReleaseHeld
  /\ UNCHANGED keyboardEnabled

\* KeyboardHandler.disable()
disable ==
  /\ keyboardEnabled' = FALSE
  /\ ReleaseHeld

\* KeyboardHandler.enable()
enable ==
  /\ keyboardEnabled' = TRUE
  /\ UNCHANGED <<port, issued, hostKeyMappings, loadedSounds, pages, activePageIndex, heldKeys>>
  /\ UNCHANGED <<pageHistories, sharedMappings, pageJumpTimers, soundDrops, returned, clipboard>>
  /\ EngineFrame

\* PageManager.setPadPageJump(keyCode, targetPage) from the page jump select
setPadPageJump(keyCode, targetPage) ==
  /\ activePageIndex \in DOMAIN pages
  /\ pages' = [pages EXCEPT ![activePageIndex].padPageJumps =
                 IF targetPage < 0 THEN MapDelete(@, keyCode)
                 ELSE IF targetPage < MAX_PAGES THEN MapSet(@, keyCode, targetPage)
                 ELSE @]
  /\ UNCHANGED <<port, issued, hostKeyMappings, loadedSounds, activePageIndex, heldKeys>>
  /\ UNCHANGED editVars
  /\ PadFrame

\* PageManager.incrementNextSoundIndex(): the page after the call
PageAfterIncrement(page, index) ==
  LET fixed == [page EXCEPT !.nextSoundIndex = Max(@, pageStart(index))]
  IN  IF fixed.nextSoundIndex >= pageEnd(index) THEN fixed
      ELSE [fixed EXCEPT !.nextSoundIndex = @ + 1]

\* PageManager.incrementNextSoundIndex(): the index it returns
incrementNextSoundIndex(page, index) ==
  LET next == Max(page.nextSoundIndex, pageStart(index))
  IN  IF next >= pageEnd(index) THEN pageEnd(index) - 1 ELSE next

\* PadGrid.handleSoundDrop(keyCode, event) with an audio file that decodes to
\* samples, when nothing else runs while the file is decoded: the slot of the
\* key on the active page (a new one if it has none), AudioEngine.loadSound,
\* PageManager.storeSoundData, ModeManager.assignSound
handleSoundDrop(keyCode, samples) ==
  LET page == pages[activePageIndex]
      known == keyCode \in DOMAIN page.keySoundIndices
      soundIndex == IF known THEN page.keySoundIndices[keyCode]
                    ELSE incrementNextSoundIndex(page, activePageIndex)
      allocated == IF known THEN page
                   ELSE [PageAfterIncrement(page, activePageIndex)
                           EXCEPT !.keySoundIndices = MapSet(@, keyCode, soundIndex)]
      mapping == [hostKeyMappings[keyCode] EXCEPT !.soundIndex = soundIndex, !.hasSound = TRUE]
  IN  /\ keyCode \in DOMAIN hostKeyMappings
      /\ pages' = [pages EXCEPT ![activePageIndex] = [allocated EXCEPT !.sounds = @ \cup {soundIndex}]]
      /\ loadedSounds' = loadedSounds \cup {soundIndex}
      /\ hostKeyMappings' = [hostKeyMappings EXCEPT ![keyCode] = mapping]
      /\ pageHistories' = ChangedInPlace(pageHistories, sharedMappings[keyCode], keyCode, mapping)
      /\ postMessages(<<Message("loadSound", <<soundIndex, samples>>), KeyMappingMessage(keyCode, mapping)>>)
      /\ UNCHANGED <<activePageIndex, heldKeys>>
      /\ UNCHANGED <<sharedMappings, pageJumpTimers, soundDrops, returned>>
      /\ PadFrame

\* PadGrid.handleSoundDrop up to its await: the slot of the key on the page
\* that is active when the file is dropped
beginSoundDrop(keyCode) ==
  LET page == pages[activePageIndex]
      known == keyCode \in DOMAIN page.keySoundIndices
      soundIndex == IF known THEN page.keySoundIndices[keyCode]
                    ELSE incrementNextSoundIndex(page, activePageIndex)
      allocated == IF known THEN page
                   ELSE [PageAfterIncrement(page, activePageIndex)
                           EXCEPT !.keySoundIndices = MapSet(@, keyCode, soundIndex)]
  IN  /\ keyCode \in DOMAIN hostKeyMappings
      /\ pages' = [pages EXCEPT ![activePageIndex] = allocated]
      /\ soundDrops' = soundDrops \cup {[keyCode |-> keyCode, soundIndex |-> soundIndex, page |-> activePageIndex]}
      /\ UNCHANGED <<port, issued, hostKeyMappings, loadedSounds, activePageIndex, heldKeys>>
      /\ UNCHANGED <<pageHistories, sharedMappings, pageJumpTimers, returned>>
      /\ PadFrame

\* PadGrid.handleSoundDrop from its await on, once the file is decoded:
\* AudioEngine.loadSound posts the samples, PageManager.storeSoundData stores
\* them in the page that is active now, ModeManager.assignSound assigns them
\* to the key in the mode manager
finishSoundDrop(drop, samples) ==
  LET mapping == [hostKeyMappings[drop.keyCode] EXCEPT !.soundIndex = drop.soundIndex, !.hasSound = TRUE]
  IN  /\ drop \in soundDrops
      /\ soundDrops' = soundDrops \ {drop}
      /\ pages' = [pages EXCEPT ![activePageIndex].sounds = @ \cup {drop.soundIndex}]
      /\ loadedSounds' = loadedSounds \cup {drop.soundIndex}
      /\ hostKeyMappings' = [hostKeyMappings EXCEPT ![drop.keyCode] = mapping]
      /\ pageHistories' = ChangedInPlace(pageHistories, sharedMappings[drop.keyCode], drop.keyCode, mapping)
      /\ postMessages(<<Message("loadSound", <<drop.soundIndex, samples>>), KeyMappingMessage(drop.keyCode, mapping)>>)
      /\ UNCHANGED <<activePageIndex, heldKeys>>
      /\ UNCHANGED <<sharedMappings, pageJumpTimers, returned>>
      /\ PadFrame

\* PadGrid.cyclePadMode(keyCode): ModeManager.toggleKeyMode for a pad that has a sound
cyclePadMode(keyCode) ==
  LET newMode == IF hostKeyMappings[keyCode].mode = SingleShot THEN Loop ELSE SingleShot
      mapping == [hostKeyMappings[keyCode] EXCEPT !.mode = newMode]
  IN  /\ keyCode \in DOMAIN hostKeyMappings
      /\ hostKeyMappings[keyCode].hasSound
      /\ hostKeyMappings' = [hostKeyMappings EXCEPT ![keyCode] = mapping]
      /\ pageHistories' = ChangedInPlace(pageHistories, sharedMappings[keyCode], keyCode, mapping)
      /\ postMessages(<<Message("setKeyMode", <<keyCode, newMode>>)>>)
      /\ UNCHANGED <<loadedSounds, pages, activePageIndex, heldKeys>>
      /\ UNCHANGED <<sharedMappings, pageJumpTimers, soundDrops, returned>>
      /\ PadFrame

\* ModeManager.toggleKeyPlaybackType(keyCode)
toggleKeyPlaybackType(keyCode) ==
  LET newType == IF hostKeyMappings[keyCode].playbackType = Gate THEN OneShot ELSE Gate
      mapping == [hostKeyMappings[keyCode] EXCEPT !.playbackType = newType]
  IN  /\ keyCode \in DOMAIN hostKeyMappings
      /\ hostKeyMappings' = [hostKeyMappings EXCEPT ![keyCode] = mapping]
      /\ pageHistories' = ChangedInPlace(pageHistories, sharedMappings[keyCode], keyCode, mapping)
      /\ postMessages(<<Message("setKeyPlaybackType", <<keyCode, newType>>)>>)
      /\ UNCHANGED <<loadedSounds, pages, activePageIndex, heldKeys>>
      /\ UNCHANGED <<sharedMappings, pageJumpTimers, soundDrops, returned>>
      /\ PadFrame

\* PageManager.saveCurrentPageState(): the active page after the call, given
\* the mode manager's mappings
SavedPage(page, index, mappings) ==
  [page EXCEPT !.keyMappings = mappings,
               !.sounds = @ \cup {i \in loadedSounds : i >= pageStart(index) /\ i < pageEnd(index)}]

\* the page without the sound of a pad (clearPad and clearPadSound)
PageWithoutSound(page, keyCode, mapping) ==
  IF mapping.hasSound
    THEN [page EXCEPT !.sounds = @ \ {mapping.soundIndex},
                      !.keySoundIndices = MapDelete(@, keyCode)]
    ELSE page

\* the snapshot before, the pad cleared to newMapping in the mode manager and
\* to cleared in the page manager, the snapshot after, recordAction, then the
\* page saved
ClearedPad(keyCode, newMapping, cleared, actionType) ==
  LET mappings == [hostKeyMappings EXCEPT ![keyCode] = newMapping]
      before == createPadSnapshot(keyCode, hostKeyMappings, pages[activePageIndex])
      after == createPadSnapshot(keyCode, mappings, cleared)
      entry == HistoryEntry(NewEntryId(pageHistories), actionType, keyCode, before, after)
      recorded == recordAction(pageHistories, activePageIndex, entry)
  IN  /\ hostKeyMappings' = mappings
      /\ pages' = [pages EXCEPT ![activePageIndex] = SavedPage(cleared, activePageIndex, mappings)]
      /\ pageHistories' = recorded
      /\ sharedMappings' = LiveShared([sharedMappings EXCEPT ![keyCode] = <<>>], recorded)
      /\ postMessages(<<KeyMappingMessage(keyCode, newMapping)>>)
      /\ UNCHANGED <<loadedSounds, activePageIndex, heldKeys>>
      /\ UNCHANGED <<pageJumpTimers, soundDrops, returned, keyboardEnabled>>
      /\ EngineFrame

\* CommandExecutor.deleteSound() with the pad keyCode selected: clearPad
\* removes the pad's sound and page jump and resets it to the default mapping
deleteSound(keyCode) ==
  /\ keyCode \in DOMAIN hostKeyMappings
  /\ hostKeyMappings[keyCode].hasSound
  /\ ClearedPad(keyCode, createDefaultKeyMapping,
                [PageWithoutSound(pages[activePageIndex], keyCode, hostKeyMappings[keyCode])
                   EXCEPT !.padPageJumps = MapDelete(@, keyCode)],
                "clear")
  /\ UNCHANGED clipboard

\* CommandExecutor.cutAudio() with the pad keyCode selected: the sound goes
\* to the clipboard, clearPadSound keeps the pad's settings and sets
\* soundIndex -1
cutAudio(keyCode) ==
  /\ keyCode \in DOMAIN hostKeyMappings
  /\ hostKeyMappings[keyCode].hasSound
  /\ hostKeyMappings[keyCode].soundIndex \in pages[activePageIndex].sounds
  /\ clipboard' = [type |-> "AudioOnly", sound |-> TRUE, settings |-> <<>>, sourceKeyCode |-> keyCode, wasCut |-> TRUE]
  /\ ClearedPad(keyCode, [hostKeyMappings[keyCode] EXCEPT !.hasSound = FALSE, !.soundIndex = -1],
                PageWithoutSound(pages[activePageIndex], keyCode, hostKeyMappings[keyCode]),
                "cut")

\* the settings ClipboardManager.copyFullPad and cutFullPad keep of a pad
PadSettings(keyCode) == [volume |-> hostKeyMappings[keyCode].volume, pitchSemitones |-> hostKeyMappings[keyCode].pitchSemitones, mode |-> hostKeyMappings[keyCode].mode, playbackType |-> hostKeyMappings[keyCode].playbackType, modulationEnabled |-> hostKeyMappings[keyCode].modulationEnabled, overlapMode |-> hostKeyMappings[keyCode].overlapMode, groupId |-> hostKeyMappings[keyCode].groupId, pageJumpTarget |-> getPadPageJump(keyCode), hasSound |-> hostKeyMappings[keyCode].hasSound]

\* the pad has a sound and the active page has its data
HasSoundData(keyCode) == hostKeyMappings[keyCode].hasSound /\ hostKeyMappings[keyCode].soundIndex \in pages[activePageIndex].sounds

\* CommandExecutor.copyAudio() with the pad keyCode selected
copyAudio(keyCode) ==
  /\ keyCode \in DOMAIN hostKeyMappings
  /\ HasSoundData(keyCode)
  /\ clipboard' = [type |-> "AudioOnly", sound |-> TRUE, settings |-> <<>>, sourceKeyCode |-> keyCode, wasCut |-> FALSE]
  /\ UNCHANGED <<port, issued, hostKeyMappings, loadedSounds, pages, activePageIndex, heldKeys>>
  /\ UNCHANGED <<pageHistories, sharedMappings, pageJumpTimers, soundDrops, returned, keyboardEnabled>>
  /\ EngineFrame

\* CommandExecutor.copyPad() with the pad keyCode selected
copyPad(keyCode) ==
  /\ keyCode \in DOMAIN hostKeyMappings
  /\ clipboard' = [type |-> "FullPad", sound |-> HasSoundData(keyCode), settings |-> PadSettings(keyCode), sourceKeyCode |-> keyCode, wasCut |-> FALSE]
  /\ UNCHANGED <<port, issued, hostKeyMappings, loadedSounds, pages, activePageIndex, heldKeys>>
  /\ UNCHANGED <<pageHistories, sharedMappings, pageJumpTimers, soundDrops, returned, keyboardEnabled>>
  /\ EngineFrame

\* CommandExecutor.cutPad() with the pad keyCode selected: the pad goes to
\* the clipboard, clearPad resets it
cutPad(keyCode) ==
  /\ keyCode \in DOMAIN hostKeyMappings
  /\ clipboard' = [type |-> "FullPad", sound |-> HasSoundData(keyCode), settings |-> PadSettings(keyCode), sourceKeyCode |-> keyCode, wasCut |-> TRUE]
  /\ ClearedPad(keyCode, createDefaultKeyMapping,
                [PageWithoutSound(pages[activePageIndex], keyCode, hostKeyMappings[keyCode])
                   EXCEPT !.padPageJumps = MapDelete(@, keyCode)],
                "cut")

\* pasteAudio and pasteFullPad: the page without the sound the destination
\* pad has
PageForPaste(keyCode) ==
  LET page == pages[activePageIndex]
  IN  IF hostKeyMappings[keyCode].hasSound /\ keyCode \in DOMAIN page.keySoundIndices
        THEN [page EXCEPT !.sounds = @ \ {page.keySoundIndices[keyCode]}, !.keySoundIndices = MapDelete(@, keyCode)]
        ELSE page

\* pasteAudio and pasteFullPad: a new slot is allocated for the pasted sound
PasteBringsSound == clipboard.type = "AudioOnly" \/ (clipboard.sound /\ clipboard.settings.hasSound)

\* the slot of the pasted sound
PastedSoundIndex(keyCode) == incrementNextSoundIndex(PageForPaste(keyCode), activePageIndex)

\* the mapping of the destination pad after pasteAudio (assignSound) or
\* pasteFullPad (a new mapping built from the settings)
PastedMapping(keyCode) ==
  IF clipboard.type = "AudioOnly"
    THEN [hostKeyMappings[keyCode] EXCEPT !.soundIndex = PastedSoundIndex(keyCode), !.hasSound = TRUE]
    ELSE [soundIndex |-> IF PasteBringsSound THEN PastedSoundIndex(keyCode) ELSE -1,
          mode |-> clipboard.settings.mode,
          playbackType |-> IF clipboard.settings.playbackType = NoPlaybackType THEN OneShot ELSE clipboard.settings.playbackType,
          overlapMode |-> clipboard.settings.overlapMode,
          groupId |-> clipboard.settings.groupId,
          volume |-> clipboard.settings.volume,
          pitchSemitones |-> clipboard.settings.pitchSemitones,
          modulationEnabled |-> clipboard.settings.modulationEnabled,
          hasSound |-> PasteBringsSound]

\* the active page after pasteAudio or pasteFullPad
PastedPage(keyCode) ==
  LET sound == IF PasteBringsSound
                 THEN [PageAfterIncrement(PageForPaste(keyCode), activePageIndex)
                         EXCEPT !.sounds = @ \cup {PastedSoundIndex(keyCode)},
                                !.keySoundIndices = MapSet(@, keyCode, PastedSoundIndex(keyCode))]
                 ELSE [PageForPaste(keyCode) EXCEPT !.keySoundIndices = MapDelete(@, keyCode)]
  IN  IF clipboard.type = "AudioOnly" THEN sound
      ELSE [sound EXCEPT !.padPageJumps =
              IF clipboard.settings.pageJumpTarget < 0 THEN MapDelete(@, keyCode)
              ELSE IF clipboard.settings.pageJumpTarget < MAX_PAGES THEN MapSet(@, keyCode, clipboard.settings.pageJumpTarget)
              ELSE @]

\* mutant of clearAfterPaste: the clipboard is kept after a cut as well
clearAfterPaste_Keeps == clipboard

\* ClipboardManager.clearAfterPaste(): the clipboard after the call
clearAfterPaste == IF clipboard.wasCut THEN EmptyClipboard ELSE clipboard

\* CommandExecutor.paste() with the pad keyCode selected: with an empty
\* clipboard it fails; else the snapshots before (of the cut's source pad as
\* well), pasteAudio or pasteFullPad, the snapshots after, recordAction, the
\* page saved, clearAfterPaste
paste(keyCode) ==
  LET affectedPads == IF clipboard.wasCut /\ clipboard.sourceKeyCode \in KEYS /\ clipboard.sourceKeyCode # keyCode THEN <<keyCode, clipboard.sourceKeyCode>> ELSE <<keyCode>>
      pads == {affectedPads[i] : i \in 1 .. Len(affectedPads)}
      mapping == PastedMapping(keyCode)
      mappings == [hostKeyMappings EXCEPT ![keyCode] = mapping]
      page == PastedPage(keyCode)
      befores == [k \in pads |-> createPadSnapshot(k, hostKeyMappings, pages[activePageIndex])]
      afters == [k \in pads |-> createPadSnapshot(k, mappings, page)]
      changed == IF clipboard.type = "AudioOnly" THEN ChangedInPlace(pageHistories, sharedMappings[keyCode], keyCode, mapping) ELSE pageHistories
      shared == IF clipboard.type = "AudioOnly" THEN sharedMappings ELSE [sharedMappings EXCEPT ![keyCode] = <<>>]
      recorded == recordAction(changed, activePageIndex, EntryOfPads(NewEntryId(changed), "paste", affectedPads, befores, afters))
  IN  /\ keyCode \in DOMAIN hostKeyMappings
      /\ IF clipboard.type = "Empty"
           THEN /\ returned' = "false"
                /\ UNCHANGED <<port, issued, hostKeyMappings, loadedSounds, pages, pageHistories, sharedMappings, clipboard>>
           ELSE /\ returned' = "true"
                /\ hostKeyMappings' = mappings
                /\ loadedSounds' = IF PasteBringsSound THEN loadedSounds \cup {PastedSoundIndex(keyCode)} ELSE loadedSounds
                /\ pages' = [pages EXCEPT ![activePageIndex] = [page EXCEPT !.keyMappings = mappings, !.sounds = @ \cup {i \in loadedSounds' : i >= pageStart(activePageIndex) /\ i < pageEnd(activePageIndex)}]]
                /\ pageHistories' = recorded
                /\ sharedMappings' = LiveShared(shared, recorded)
                /\ postMessages((IF PasteBringsSound THEN <<Message("loadSound", <<PastedSoundIndex(keyCode), Buffer(MaxLen)>>)>> ELSE <<>>) \o <<KeyMappingMessage(keyCode, mapping)>>)
                /\ clipboard' = clearAfterPaste
      /\ UNCHANGED <<activePageIndex, heldKeys, pageJumpTimers, soundDrops, keyboardEnabled>>
      /\ EngineFrame

\* the active page after restoreStates has restored the pad keyCode from
\* snapshot, before the page is saved
RestoredPage(page, keyCode, snapshot) ==
  LET sound == IF snapshot.sound
                 THEN [page EXCEPT !.sounds = @ \cup {snapshot.mapping.soundIndex},
                                   !.keySoundIndices = MapSet(@, keyCode, snapshot.mapping.soundIndex)]
               ELSE IF ~snapshot.mapping.hasSound /\ keyCode \in DOMAIN page.keySoundIndices
                 THEN [page EXCEPT !.sounds = @ \ {page.keySoundIndices[keyCode]},
                                   !.keySoundIndices = MapDelete(@, keyCode)]
               ELSE page
  IN  [sound EXCEPT !.padPageJumps =
         IF snapshot.pageJumpTarget < 0 THEN MapDelete(@, keyCode)
         ELSE IF snapshot.pageJumpTarget < MAX_PAGES THEN MapSet(@, keyCode, snapshot.pageJumpTarget)
         ELSE @]

\* the active page after restoreStates has restored the pads of order, one
\* after the other
RECURSIVE RestoredPads(_, _, _)
RestoredPads(page, order, states) == IF order = <<>> THEN page ELSE RestoredPads(RestoredPage(page, Head(order), states[Head(order)]), Tail(order), states)

\* the messages of restoreStates: for each pad its mapping, then its sound
\* if the snapshot holds one
RECURSIVE RestoreMessages(_, _)
RestoreMessages(order, states) == IF order = <<>> THEN <<>> ELSE <<KeyMappingMessage(Head(order), states[Head(order)].mapping)>> \o (IF states[Head(order)].sound THEN <<Message("loadSound", <<states[Head(order)].mapping.soundIndex, Buffer(MaxLen)>>)>> ELSE <<>>) \o RestoreMessages(Tail(order), states)

\* HistoryManager.restoreStates(states) for the states of an entry, iterated
\* in the order of its pads; shared names the snapshots whose mapping
\* objects the mode manager holds from now on
restoreStates(states, order, shared) ==
  LET mappings == [k \in KEYS |-> IF k \in DOMAIN states THEN states[k].mapping ELSE hostKeyMappings[k]]
      page == RestoredPads(pages[activePageIndex], order, states)
  IN  /\ hostKeyMappings' = mappings
      /\ sharedMappings' = [k \in KEYS |-> IF k \in DOMAIN states THEN shared ELSE sharedMappings[k]]
      /\ loadedSounds' = loadedSounds \cup {states[k].mapping.soundIndex : k \in {j \in DOMAIN states : states[j].sound}}
      /\ pages' = [pages EXCEPT ![activePageIndex] = SavedPage(page, activePageIndex, mappings)]
      /\ postMessages(RestoreMessages(order, states))

\* HistoryManager.undo()
undo ==
  LET history == pageHistories[activePageIndex]
      entry == history.undoStack[Len(history.undoStack)]
  IN  /\ activePageIndex \in DOMAIN pages
      /\ IF history.undoStack = <<>>
           THEN /\ returned' = "false"
                /\ UNCHANGED <<port, issued, hostKeyMappings, loadedSounds, pages, pageHistories, sharedMappings>>
           ELSE /\ restoreStates(entry.beforeState, entry.affectedPads, <<entry.id, "before">>)
                /\ pageHistories' = [pageHistories EXCEPT ![activePageIndex] =
                                       [undoStack |-> SubSeq(history.undoStack, 1, Len(history.undoStack) - 1),
                                        redoStack |-> KeepNewest(Append(history.redoStack, entry))]]
                /\ returned' = "true"
      /\ UNCHANGED <<activePageIndex, heldKeys, pageJumpTimers, soundDrops>>
      /\ PadFrame

\* HistoryManager.redo()
redo ==
  LET history == pageHistories[activePageIndex]
      entry == history.redoStack[Len(history.redoStack)]
  IN  /\ activePageIndex \in DOMAIN pages
      /\ IF history.redoStack = <<>>
           THEN /\ returned' = "false"
                /\ UNCHANGED <<port, issued, hostKeyMappings, loadedSounds, pages, pageHistories, sharedMappings>>
           ELSE /\ restoreStates(entry.afterState, entry.affectedPads, <<entry.id, "after">>)
                /\ pageHistories' = [pageHistories EXCEPT ![activePageIndex] =
                                       [undoStack |-> Append(history.undoStack, entry),
                                        redoStack |-> SubSeq(history.redoStack, 1, Len(history.redoStack) - 1)]]
                /\ returned' = "true"
      /\ UNCHANGED <<activePageIndex, heldKeys, pageJumpTimers, soundDrops>>
      /\ PadFrame

\* mutant of createPage: a page is added whatever the number of pages
createPage_NoLimit == (pages' = [p \in 0 .. Cardinality(DOMAIN pages) |-> IF p \in DOMAIN pages THEN pages[p] ELSE createEmptyPage(p)]) /\ returned' = ToString(Cardinality(DOMAIN pages)) /\ UNCHANGED <<port, issued, hostKeyMappings, loadedSounds, activePageIndex, heldKeys, pageHistories, sharedMappings, pageJumpTimers, soundDrops>> /\ PadFrame

\* PageManager.createPage()
createPage ==
  LET pageIndex == Cardinality(DOMAIN pages)
  IN  /\ IF pageIndex >= MAX_PAGES
           THEN /\ returned' = "-1"
                /\ UNCHANGED pages
           ELSE /\ returned' = ToString(pageIndex)
                /\ pages' = [p \in 0 .. pageIndex |-> IF p = pageIndex THEN createEmptyPage(p) ELSE pages[p]]
      /\ UNCHANGED <<port, issued, hostKeyMappings, loadedSounds, activePageIndex, heldKeys>>
      /\ UNCHANGED <<pageHistories, sharedMappings, pageJumpTimers, soundDrops>>
      /\ PadFrame

\* the keys whose mapping PageManager.loadPageState applies
AppliedKeys(page, index) ==
  {k \in KEYS : /\ page.keyMappings[k].hasSound
                /\ page.keyMappings[k].soundIndex >= pageStart(index)
                /\ page.keyMappings[k].soundIndex < pageEnd(index)}

\* the messages of PageManager.loadPageState(pageIndex): the page's sounds,
\* the mappings that have a sound, the modulation preset
LoadPageMessages(page, index) ==
  LET inRange == {i \in page.sounds : i >= pageStart(index) /\ i < pageEnd(index)}
      loads == [n \in 1 .. Cardinality(inRange) |-> Message("loadSound", <<Ordered(inRange)[n], Buffer(MaxLen)>>)]
      keys == Ordered(AppliedKeys(page, index))
      mappings == [n \in 1 .. Len(keys) |-> KeyMappingMessage(keys[n], page.keyMappings[keys[n]])]
  IN  loads \o mappings \o <<Message("setModulationPreset", <<PresetNone>>)>>

\* PageManager.switchToPage(pageIndex), called by a page hotkey or button or
\* by a page jump timer (pageJumpTimers is the caller's)
switchToPage(pageIndex) ==
  LET created == [p \in DOMAIN pages \cup (0 .. pageIndex) |-> IF p \in DOMAIN pages THEN pages[p] ELSE createEmptyPage(p)]
      saved == [created EXCEPT ![activePageIndex] = SavedPage(@, activePageIndex, hostKeyMappings)]
      page == saved[pageIndex]
  IN  /\ activePageIndex \in DOMAIN pages
      /\ IF pageIndex < 0 \/ pageIndex >= MAX_PAGES
           THEN /\ returned' = "false"
                /\ UNCHANGED <<port, issued, pages, activePageIndex, hostKeyMappings, loadedSounds, sharedMappings>>
           ELSE IF activePageIndex = pageIndex
           THEN /\ returned' = "true"
                /\ pages' = created
                /\ UNCHANGED <<port, issued, activePageIndex, hostKeyMappings, loadedSounds, sharedMappings>>
           ELSE /\ returned' = "true"
                /\ pages' = saved
                /\ activePageIndex' = pageIndex
                /\ hostKeyMappings' = [k \in KEYS |-> IF k \in AppliedKeys(page, pageIndex) THEN page.keyMappings[k] ELSE createDefaultKeyMapping]
                /\ sharedMappings' = [k \in KEYS |-> <<>>]
                /\ loadedSounds' = loadedSounds \cup {i \in page.sounds : i >= pageStart(pageIndex) /\ i < pageEnd(pageIndex)}
                /\ postMessages(LoadPageMessages(page, pageIndex))
      /\ UNCHANGED <<heldKeys, pageHistories, soundDrops>>
      /\ PadFrame

\* the callback of the timer executePageJump has set, 150 ms later
pageJumpTimer ==
  /\ pageJumpTimers # <<>>
  /\ switchToPage(Head(pageJumpTimers))
  /\ pageJumpTimers' = Tail(pageJumpTimers)

\* the handlers run once the application is initialized and the worklet has
\* caught up to MaxQueued messages; a session starts its last handler with
\* fewer than MaxPadIssued messages posted
PadReady == workletNode /\ Len(port) <= MaxQueued /\ Len(issued) < MaxPadIssued

InitializeApp == initializeApp

KeyDown ==
  /\ PadReady
  /\ \E k \in KEYS : handleKeyDown(k)

KeyUp ==
  /\ PadReady
  /\ \E k \in heldKeys : handleKeyUp(k)

SoundDrop ==
  /\ PadReady
  /\ \E k \in KEYS : handleSoundDrop(k, Buffer(MaxLen))

CyclePadMode ==
  /\ PadReady
  /\ \E k \in KEYS : cyclePadMode(k)

ToggleKeyPlaybackType ==
  /\ PadReady
  /\ \E k \in KEYS : toggleKeyPlaybackType(k)

DeleteSound ==
  /\ PadReady
  /\ \E k \in KEYS : deleteSound(k)

CutAudio ==
  /\ PadReady
  /\ \E k \in KEYS : cutAudio(k)

SwitchToPage ==
  /\ PadReady
  /\ \E p \in 0 .. (MAX_PAGES - 1) : p # activePageIndex /\ switchToPage(p)
  /\ UNCHANGED pageJumpTimers

NextPads ==
  \/ InitializeApp
  \/ KeyDown
  \/ KeyUp
  \/ SoundDrop
  \/ CyclePadMode
  \/ ToggleKeyPlaybackType
  \/ DeleteSound
  \/ CutAudio
  \/ SwitchToPage
  \/ HandleMessage
  \/ WorkletProcess

SpecPads == Init /\ [][NextPads]_vars

----------------------------------------------------------------------------
(* The settings scenario: the narrow setters change the mapping of a key   *)
(* that has a sound and a sounding voice.  One note is started and never   *)
(* rendered, so the voice keeps the settings of the mapping at the press.  *)

\* volumes in percent: below the range, inside it, above it
VolumeArgs == {-50, 50, 150}

\* semitones: below the range, inside it, above it
PitchArgs == {-36, 12, 36}

SettersLoadSound ==
  /\ load_sound(0, Buffer(MaxLen))
  /\ UNCHANGED hostVars

SettersSetKeyMapping ==
  /\ set_key_mapping(KeyA, 0, SingleShot, Polyphonic, 0, 100, 0, FALSE)
  /\ UNCHANGED hostVars

SettersNoteOn ==
  /\ ActiveVoices = {}
  /\ note_on(KeyA)
  /\ UNCHANGED hostVars

SettersSetKeyMode ==
  /\ \E m \in ModeArgs : set_key_mode(KeyA, m)
  /\ UNCHANGED hostVars

SettersSetKeyVolume ==
  /\ \E volume \in VolumeArgs : set_key_volume(KeyA, volume)
  /\ UNCHANGED hostVars

SettersSetKeyPitch ==
  /\ \E semitones \in PitchArgs : set_key_pitch(KeyA, semitones)
  /\ UNCHANGED hostVars

SettersSetKeyModulation ==
  /\ \E enabled \in BOOLEAN : set_key_modulation(KeyA, enabled)
  /\ UNCHANGED hostVars

SettersSetKeyOverlap ==
  /\ \E og \in OverlapGroupArgs : set_key_overlap(KeyA, og[1], og[2])
  /\ UNCHANGED hostVars

NextSetters ==
  \/ SettersLoadSound
  \/ SettersSetKeyMapping
  \/ SettersNoteOn
  \/ SettersSetKeyMode
  \/ SettersSetKeyVolume
  \/ SettersSetKeyPitch
  \/ SettersSetKeyModulation
  \/ SettersSetKeyOverlap

SpecSetters == Init /\ [][NextSetters]_vars

----------------------------------------------------------------------------
(* The range scenario: the commands that clamp carry values below, inside  *)
(* and above their ranges, to keys inside and outside the table and to     *)
(* sound slots inside and outside the bank.                                *)

\* beats per minute: below the range, inside it, above it
BpmArgs == {10, 150, 400}

RangesSetBpm ==
  /\ \E newBpm \in BpmArgs : set_bpm(newBpm)
  /\ UNCHANGED hostVars

RangesSetMasterVolume ==
  /\ \E volume \in VolumeArgs : set_master_volume(volume)
  /\ UNCHANGED hostVars

RangesSetMetronome ==
  /\ \E enabled \in BOOLEAN, volume \in VolumeArgs : set_metronome(enabled, volume)
  /\ UNCHANGED hostVars

RangesSetKeyVolume ==
  /\ \E k \in AnyKeyArgs, volume \in VolumeArgs : set_key_volume(k, volume)
  /\ UNCHANGED hostVars

RangesSetKeyPitch ==
  /\ \E k \in AnyKeyArgs, semitones \in PitchArgs : set_key_pitch(k, semitones)
  /\ UNCHANGED hostVars

RangesSetKeyMapping ==
  /\ \E k \in AnyKeyArgs, i \in AnySlotArgs, volume \in VolumeArgs, semitones \in PitchArgs :
       set_key_mapping(k, i, SingleShot, Polyphonic, 0, volume, semitones, FALSE)
  /\ UNCHANGED hostVars

NextRanges ==
  \/ RangesSetBpm
  \/ RangesSetMasterVolume
  \/ RangesSetMetronome
  \/ RangesSetKeyVolume
  \/ RangesSetKeyPitch
  \/ RangesSetKeyMapping

SpecRanges == Init /\ [][NextRanges]_vars

----------------------------------------------------------------------------
(* Claims on the voice pool, checked under Spec *)

\* note_on(k) would cut at least one active voice
NoteOnCuts(k) ==
  /\ keyMappings[k].hasSound
  /\ keyMappings[k].overlapMode = Monophonic
  /\ \E v \in ActiveVoices : voices[v].groupId = keyMappings[k].groupId

\* C1: at most MAX_VOICES voices are ever active, and a note_on that arrives
\* while every voice is active and that cuts none of them leaves all voices
\* as they were and does not raise.
C1_PoolBound ==
  /\ [](get_active_voice_count <= MAX_VOICES)
  /\ [][\A k \in KEYS :
          (note_on(k) /\ get_active_voice_count = MAX_VOICES /\ ~NoteOnCuts(k))
            => (voices' = voices /\ threw' = "none")]_vars

\* C1 witness: the pool is full and a key with a sound is mapped whose
\* note_on cuts nothing, so that its note_on is the dropped one
C1_Witness ==
  /\ get_active_voice_count = MAX_VOICES
  /\ \E k \in KEYS : keyMappings[k].hasSound /\ ~NoteOnCuts(k)

\* two different keys with a sound, both Monophonic in one non-zero group
SameMonoGroup(a, b) ==
  /\ a # b
  /\ keyMappings[a].hasSound /\ keyMappings[b].hasSound
  /\ keyMappings[a].overlapMode = Monophonic /\ keyMappings[b].overlapMode = Monophonic
  /\ keyMappings[a].groupId = keyMappings[b].groupId
  /\ keyMappings[a].groupId # 0

\* voice v is as note_on(k) wrote it: started by k and not rendered since
JustStartedBy(v, k) == voices[v] = StartedVoice(keyMappings[k], k)

\* C2: note_on(a) then note_on(b), both keys with a sound and Monophonic in
\* the same non-zero group: the voice a started is no longer a's, and of the
\* voices of both keys in that group at most one is active, which is b's.
C2_MonophonicExclusivity ==
  [][\A a, b \in KEYS :
       (SameMonoGroup(a, b) /\ (\E v \in VoiceIds : JustStartedBy(v, a)) /\ note_on(b))
         => LET g == keyMappings[b].groupId
                playing == {v \in VoiceIds : /\ voices'[v].active
                                             /\ voices'[v].groupId = g
                                             /\ voices'[v].keyCode \in {a, b}}
            IN  /\ \A v \in VoiceIds :
                     JustStartedBy(v, a) => (~voices'[v].active \/ voices'[v].keyCode = b)
                /\ Cardinality(playing) <= 1
                /\ \A v \in playing : voices'[v].keyCode = b]_vars

\* C2 witness: b's voice has just started in the shared group and no voice of
\* a plays in it
C2_Witness ==
  \E a, b \in KEYS :
    /\ SameMonoGroup(a, b)
    /\ \E v \in VoiceIds : JustStartedBy(v, b)
    /\ Cardinality({v \in ActiveVoices : voices[v].groupId = keyMappings[b].groupId}) = 1
    /\ \A v \in ActiveVoices : voices[v].keyCode # a

\* voice v goes from idle to active / from active to idle in a step
Started(v) == ~voices[v].active /\ voices'[v].active

Stopped(v) == voices[v].active /\ ~voices'[v].active

\* the four ways a voice may stop
NaturalEnd(v) ==
  /\ process
  /\ voices[v].mode = SingleShot
  /\ voices'[v].position \div POS_UNIT >= sounds[voices[v].soundIndex].length

Released(v) ==
  \E k \in KEYS : note_off(k) /\ voices[v].keyCode = k /\ voices[v].mode = Loop

CutByGroup(v) ==
  \E k \in KEYS : /\ note_on(k)
                  /\ keyMappings[k].hasSound
                  /\ keyMappings[k].overlapMode = Monophonic
                  /\ keyMappings[k].groupId = voices[v].groupId

\* C3: a voice becomes active only by note_on of a key that has a sound, and
\* becomes idle only by the natural end of a SingleShot voice, by note_off of
\* its key while it loops, by a monophonic cut of its group, or by panic.
C3_VoiceTransitions ==
  [][\A v \in VoiceIds :
       /\ Started(v) => \E k \in KEYS : /\ note_on(k)
                                        /\ keyMappings[k].hasSound
                                        /\ voices'[v] = StartedVoice(keyMappings[k], k)
       /\ Stopped(v) => (NaturalEnd(v) \/ Released(v) \/ CutByGroup(v) \/ panic)]_vars

\* C3 witness: an idle voice that played a SingleShot sound to the end of its
\* buffer, beside a voice that is still active
C3_Witness ==
  \E v, w \in VoiceIds :
    /\ ~voices[v].active
    /\ voices[v].mode = SingleShot
    /\ sounds[voices[v].soundIndex].loaded
    /\ voices[v].position \div POS_UNIT >= sounds[voices[v].soundIndex].length
    /\ voices[w].active

\* C4: note_off(k) deactivates the active Loop voices of key k and changes
\* nothing else: SingleShot voices of k and the voices of other keys are
\* exactly as before.
C4_NoteOff ==
  [][\A k \in KEYS :
       note_off(k) =>
         \A v \in VoiceIds :
           IF voices[v].active /\ voices[v].keyCode = k /\ voices[v].mode = Loop
             THEN voices'[v] = [voices[v] EXCEPT !.active = FALSE]
             ELSE voices'[v] = voices[v]]_vars

\* C4 witness: a released Loop voice of a key beside a SingleShot voice of the
\* same key that is still playing
C4_Witness ==
  \E k \in KEYS, v, w \in VoiceIds :
    /\ voices[v].keyCode = k /\ voices[v].mode = Loop /\ ~voices[v].active
    /\ voices[v].position = 0
    /\ voices[w].keyCode = k /\ voices[w].mode = SingleShot /\ voices[w].active

\* C10: note_on of a key whose mapping has no sound changes nothing at all,
\* also when the key is Monophonic and voices of its group are active.
C10_NoteOnWithoutSound ==
  [][\A k \in KEYS :
       (note_on(k) /\ ~keyMappings[k].hasSound)
         => /\ voices' = voices
            /\ threw' = "none"
            /\ UNCHANGED <<sounds, keyMappings, bpm, globalSamplePosition, metronomeEnabled,
                           metronomeVolume, modulationPreset, masterVolume>>]_vars

\* C10 witness: a Monophonic key without a sound while a voice of its group
\* is active and another is free
C10_Witness ==
  \E k \in KEYS :
    /\ ~keyMappings[k].hasSound
    /\ keyMappings[k].overlapMode = Monophonic
    /\ \E v \in ActiveVoices : voices[v].groupId = keyMappings[k].groupId
    /\ FreeVoices(voices) # {}

----------------------------------------------------------------------------
(* Claims on error handling and atomicity, checked under SpecAnyInput *)

\* C5: no command raises, whatever its arguments; a load into a slot outside
\* [0, MAX_SOUNDS) and a command for a key outside the table leave the sound
\* bank, the mapping table and the voice pool unchanged.
C5_NoCommandRaises ==
  [][/\ threw' # "command"
     /\ \A i \in AnySlotArgs \ (0 .. (MAX_SOUNDS - 1)), b \in BufferArgs :
          load_sound(i, b) => UNCHANGED <<sounds, keyMappings, voices>>
     /\ (note_on(BadKey) \/ note_off(BadKey))
          => UNCHANGED <<sounds, keyMappings, voices>>]_vars

\* C6: process() never raises in a state reached through the commands, also
\* after set_key_mapping with slot -1 followed by note_on of that key.
C6_ProcessNeverRaises == threw # "process"

\* the slot holds no loaded sound: no object at the index, or loaded = false
NotLoaded(soundIndex) == ~SoundDefined(soundIndex) \/ ~sounds[soundIndex].loaded

\* C7: a voice that is active on a slot that is not loaded is idle after the
\* next process() call, no sample was read for it, and the call returned.
C7_StaleVoiceDeactivated ==
  [][process =>
       \A v \in VoiceIds :
         (voices[v].active /\ NotLoaded(voices[v].soundIndex))
           => /\ ~voices'[v].active
              /\ \A r \in RenderBlock.reads : r.voice # v
              /\ threw' # "process"]_vars

\* has_sound as a whole set_key_mapping leaves it for slot soundIndex
LoadedSlot(soundIndex) ==
  soundIndex < MAX_SOUNDS /\ SoundDefined(soundIndex) /\ sounds[soundIndex].loaded

\* C8: a command takes effect as a whole: a step that gives a key another
\* slot (set_key_mapping) also leaves hasSound as that slot determines it;
\* and a render block changes no mapping, sound or transport parameter.
C8_WholeCommands ==
  [][/\ \A k \in KEYS :
          keyMappings'[k].soundIndex # keyMappings[k].soundIndex
            => keyMappings'[k].hasSound = LoadedSlot(keyMappings'[k].soundIndex)
     /\ process => UNCHANGED <<sounds, keyMappings, bpm, metronomeEnabled,
                               metronomeVolume, modulationPreset, masterVolume>>]_vars

----------------------------------------------------------------------------
(* Claim on the command path, checked under SpecHost *)

\* C9: the commands the host issued are, in the order issued, those already
\* applied to the engine followed by those still waiting in the port: none is
\* lost, duplicated, ignored or reordered.
C9_ExactlyOnceInOrder == issued = applied \o port

----------------------------------------------------------------------------
(* Claims on the key mapping commands *)

\* C11: after set_key_mapping(key, slot, ..) the key's hasSound is true
\* exactly if slot is in [0, MAX_SOUNDS) and that slot is loaded, whatever
\* hasSound was before.
C11_HasSoundRecomputed ==
  [][\A i \in AnySlotArgs :
       set_key_mapping(KeyA, i, SingleShot, Polyphonic, 0, 150, 0, FALSE)
         => (keyMappings'[KeyA].hasSound
               <=> (i \in 0 .. (MAX_SOUNDS - 1) /\ sounds[i].loaded))]_vars

----------------------------------------------------------------------------
(* Claims on the rendering of one voice *)

\* the render state after the first n frames of a process() call made in
\* this state
RECURSIVE FramesRendered(_)
FramesRendered(n) ==
  IF n = 0
    THEN [voices |-> voices, gsp |-> globalSamplePosition, reads |-> {}, threw |-> FALSE]
    ELSE LET before == FramesRendered(n - 1)
             mixed == RenderVoices(before, 0, n - 1)
         IN  IF before.threw THEN before
             ELSE IF mixed.threw THEN mixed
             ELSE [mixed EXCEPT !.gsp = @ + 1]

\* C12: a Loop voice whose targetLength is greater than its buffer length
\* resets its position at targetLength: a frame that finds the position
\* below targetLength does not move it back, and a frame that finds it at or
\* beyond targetLength wraps it modulo targetLength.
C12_LoopResetsAtTarget ==
  \A n \in 0 .. (BLOCK_SIZE - 1), v \in VoiceIds :
    LET voice == FramesRendered(n).voices[v]
        after == FramesRendered(n + 1).voices[v]
        length == sounds[voice.soundIndex].length
        targetLength == TargetLength(length, voice.pitch)
    IN  (/\ voice.active /\ voice.mode = Loop
         /\ sounds[voice.soundIndex].loaded
         /\ targetLength > POS_UNIT * length)
          => IF voice.position < targetLength
               THEN after.position >= voice.position
               ELSE after.position = voice.position % targetLength

\* C13: a SingleShot voice at pitch multiplier 1.0 of which k frames were
\* rendered on a loaded buffer of length L is read in exactly those frames
\* of the next block whose number, counted from its note_on, is below L, at
\* that index of the buffer; and it is idle after the block if frame L was in
\* it, without a note_off.
C13_SingleShotPlaysOnce ==
  \A v \in VoiceIds :
    LET voice == voices[v]
        L == sounds[voice.soundIndex].length
        k == voice.position \div POS_UNIT
        done == RenderBlock
        readsOf == {r \in done.reads : r.voice = v}
    IN  (/\ voice.active /\ voice.mode = SingleShot /\ voice.pitch = POS_UNIT
         /\ sounds[voice.soundIndex].loaded)
          => /\ voice.position = POS_UNIT * k
             /\ {r.frame : r \in readsOf} = {n \in 0 .. (BLOCK_SIZE - 1) : k + n < L}
             /\ \A r \in readsOf : r.index \in {k + r.frame, k + r.frame + 1}
             /\ done.voices[v].active <=> (k + BLOCK_SIZE <= L)

\* C13 witness: a SingleShot voice of the key that played a buffer of MaxLen
\* samples to its end and is idle, with no note_off in between
C13_Witness ==
  \E v \in VoiceIds :
    /\ ~voices[v].active /\ voices[v].mode = SingleShot /\ voices[v].keyCode = KeyA
    /\ sounds[0].length = MaxLen
    /\ voices[v].position = POS_UNIT * MaxLen

----------------------------------------------------------------------------
(* Claims on the pads, checked under SpecPads *)

\* the worklet handles the last waiting message, a noteOff for key k
ReleaseApplied(k) ==
  /\ handleMessage
  /\ Head(port) = Message("noteOff", <<k>>)
  /\ port' = <<>>

\* C14: for a key whose playback type is Gate, in SingleShot or in Loop mode,
\* once the key-up has been handled and its noteOff applied (no message is
\* waiting), no voice started by that key is active.
C14_GateReleaseStops ==
  [][\A k \in KEYS :
       (ReleaseApplied(k) /\ hostKeyMappings[k].playbackType = Gate)
         => \A v \in VoiceIds : ~(voices'[v].active /\ voices'[v].keyCode = k)]_vars

\* the worklet handles the last waiting message, a noteOn for key k: every
\* message posted before the key press has been applied
PressApplied(k) ==
  /\ handleMessage
  /\ Head(port) = Message("noteOn", <<k>>)
  /\ port' = <<>>

\* the mode manager holds a sound of the active page for key k
AssignedOnActivePage(k) ==
  /\ hostKeyMappings[k].hasSound
  /\ hostKeyMappings[k].soundIndex >= pageStart(activePageIndex)
  /\ hostKeyMappings[k].soundIndex < pageEnd(activePageIndex)

\* the step starts a voice for key k
StartsVoice(k) ==
  \E v \in VoiceIds : ~voices[v].active /\ voices'[v].active /\ voices'[v].keyCode = k

\* C15: on every page p, for a slot of the page's range [64p, 64p+63] that a
\* sound was loaded into and that was assigned to a key, a press of that key
\* while p is the active page starts a voice (a voice being free).
C15_PlayableOnEveryPage ==
  [][\A k \in KEYS :
       (PressApplied(k) /\ AssignedOnActivePage(k) /\ FreeVoices(voices) # {})
         => StartsVoice(k)]_vars

\* the worklet handles the last message of switchToPage (the modulation
\* preset of the page loaded) and no message is waiting
SwitchApplied ==
  /\ handleMessage
  /\ Head(port) = Message("setModulationPreset", <<PresetNone>>)
  /\ port' = <<>>

\* C16: once switchToPage(p) has completed and its messages are applied,
\* every key without a sound on page p has hasSound = false in the engine,
\* whatever it had on the page that was active before.
C16_NoPageBleed ==
  [][SwitchApplied
       => \A k \in KEYS : ~hostKeyMappings[k].hasSound => ~keyMappings'[k].hasSound]_vars

\* C17: a pad whose sound was deleted or cut, and that no sound was assigned
\* to since, starts no voice when its key is pressed, whatever slots are
\* loaded (stated for a session that stays on the first page, so that no
\* other page's mapping is involved).
C17_ClearedPadIsSilent ==
  [][\A k \in KEYS :
       (PressApplied(k) /\ DOMAIN pages = {0} /\ ~hostKeyMappings[k].hasSound)
         => ~StartsVoice(k)]_vars

----------------------------------------------------------------------------
(* Claims on the settings, checked under SpecSetters *)

\* the step changes, at most, the fields named of the mapping of key k, and
\* nothing else of the engine
OnlyFields(k, fields) ==
  /\ \A f \in DOMAIN keyMappings[k] \ fields : keyMappings'[k][f] = keyMappings[k][f]
  /\ \A other \in KEYS \ {k} : keyMappings'[other] = keyMappings[other]
  /\ UNCHANGED <<sounds, voices, bpm, globalSamplePosition, metronomeEnabled,
                 metronomeVolume, modulationPreset, masterVolume>>

\* C18: each narrow setter (set_key_mode, set_key_volume, set_key_pitch,
\* set_key_modulation, set_key_overlap) stores its value in its own field or
\* fields of the addressed key's mapping and changes nothing else: not the
\* other fields of that mapping (hasSound and soundIndex among them), not
\* another key's mapping, not the sound bank, the transport or the voices.
C18_NarrowSetters ==
  [][/\ \A m \in ModeArgs :
          set_key_mode(KeyA, m)
            => keyMappings'[KeyA].mode = m /\ OnlyFields(KeyA, {"mode"})
     /\ \A volume \in VolumeArgs :
          set_key_volume(KeyA, volume)
            => OnlyFields(KeyA, {"volume"})
     /\ \A semitones \in PitchArgs :
          set_key_pitch(KeyA, semitones)
            => OnlyFields(KeyA, {"pitchSemitones"})
     /\ \A enabled \in BOOLEAN :
          set_key_modulation(KeyA, enabled)
            => /\ keyMappings'[KeyA].modulationEnabled = enabled
               /\ OnlyFields(KeyA, {"modulationEnabled"})
     /\ \A og \in OverlapGroupArgs :
          set_key_overlap(KeyA, og[1], og[2])
            => /\ keyMappings'[KeyA].overlapMode = og[1]
               /\ keyMappings'[KeyA].groupId = og[2]
               /\ OnlyFields(KeyA, {"overlapMode", "groupId"})]_vars

\* a setter has changed the volume and the pitch of a key that has a sound
\* while a voice started with the old values sounds
C18_Witness ==
  /\ keyMappings[KeyA].hasSound
  /\ keyMappings[KeyA].volume = 50
  /\ keyMappings[KeyA].pitchSemitones = 12
  /\ keyMappings[KeyA].mode = Loop
  /\ keyMappings[KeyA].modulationEnabled
  /\ keyMappings[KeyA].overlapMode = Monophonic
  /\ \E v \in VoiceIds : voices[v].active /\ voices[v].volume = 100 /\ voices[v].mode = SingleShot

----------------------------------------------------------------------------
(* Claims on the value ranges, checked under SpecRanges *)

\* the bound of lo .. hi nearest to x, or x itself inside the range
Nearest(lo, hi, x) == IF x < lo THEN lo ELSE IF x > hi THEN hi ELSE x

\* bpm in [20, 300], the volumes in [0, 1] (percent), pitch in [-24, 24]
InRange ==
  /\ bpm \in 20 .. 300
  /\ masterVolume \in 0 .. 100
  /\ metronomeVolume \in 0 .. 100
  /\ \A k \in KEYS : /\ keyMappings[k].volume \in 0 .. 100
                     /\ keyMappings[k].pitchSemitones \in (-24) .. 24

----------------------------------------------------------------------------
(* Claims on panic, checked under Spec *)

\* C20: after panic no voice is active and the sample position is 0, and a
\* second panic applied immediately afterwards leaves the engine exactly as
\* the first one left it.
C20_PanicIdempotent ==
  [][panic
       => LET once == [voices |-> voices', gsp |-> globalSamplePosition']
          IN  /\ \A v \in VoiceIds : ~voices'[v].active
              /\ globalSamplePosition' = 0
              /\ PanicState(once) = once
              /\ UNCHANGED <<sounds, keyMappings, bpm, metronomeEnabled,
                             metronomeVolume, modulationPreset, masterVolume>>]_vars

\* every voice of a full pool is silent after a block had advanced it, and
\* the sample position is back at 0
C20_Witness ==
  /\ globalSamplePosition = 0
  /\ \A v \in VoiceIds : /\ ~voices[v].active
                         /\ voices[v].position > 0
                         /\ voices[v].mode = SingleShot
                         /\ voices[v].keyCode = KeyA

----------------------------------------------------------------------------
(* Claims on note_on and the voices it cuts or starts, checked under Spec *)

\* C23: note_on cuts before it allocates: when every voice is active and at
\* least one of them has the group of a Monophonic key that has a sound,
\* note_on of that key leaves an active voice of the key, as note_on writes
\* it, in the lowest voice that the cut freed.
C23_CutBeforeAllocation ==
  [][\A k \in KEYS :
       (note_on(k) /\ get_active_voice_count = MAX_VOICES /\ NoteOnCuts(k))
         => LET freed == {v \in VoiceIds : voices[v].groupId = keyMappings[k].groupId}
            IN  /\ voices'[FirstOf(freed)] = StartedVoice(keyMappings[k], k)
                /\ \A v \in freed \ {FirstOf(freed)} : ~voices'[v].active
                /\ \A v \in VoiceIds \ freed : voices'[v] = voices[v]]_vars

\* C23 witness: every voice is active although a Monophonic key has just
\* started its voice, in a pool that holds a voice of another group
C23_Witness ==
  \E k \in KEYS, v \in VoiceIds :
    /\ keyMappings[k].hasSound /\ keyMappings[k].overlapMode = Monophonic
    /\ JustStartedBy(v, k)
    /\ get_active_voice_count = MAX_VOICES
    /\ \E w \in VoiceIds : voices[w].groupId # keyMappings[k].groupId

\* C24: note_on of a key that has a sound deactivates an active voice exactly
\* if the key is Monophonic and the voice has the key's group, whatever key
\* started the voice: every other active voice is exactly as before.
C24_CutExactlyGroup ==
  [][\A k \in KEYS :
       (note_on(k) /\ keyMappings[k].hasSound)
         => \A v \in ActiveVoices :
              LET inGroup == /\ keyMappings[k].overlapMode = Monophonic
                             /\ voices[v].groupId = keyMappings[k].groupId
              IN  IF inGroup
                    THEN voices'[v] \in {[voices[v] EXCEPT !.active = FALSE],
                                         StartedVoice(keyMappings[k], k)}
                    ELSE voices'[v] = voices[v]]_vars

\* C24 witness: a Monophonic key has just started its voice and the voice
\* that another key started in the same group is idle
C24_Witness ==
  \E k \in KEYS, v, w \in VoiceIds :
    /\ keyMappings[k].hasSound /\ keyMappings[k].overlapMode = Monophonic
    /\ JustStartedBy(v, k)
    /\ ~voices[w].active /\ voices[w].groupId = keyMappings[k].groupId
    /\ voices[w].keyCode # k /\ voices[w].position = 0

\* the fields a voice copies from the mapping at note_on
CopiedFields(voice) == [soundIndex |-> voice.soundIndex, mode |-> voice.mode, groupId |-> voice.groupId, volume |-> voice.volume, pitch |-> voice.pitch, modulationEnabled |-> voice.modulationEnabled, keyCode |-> voice.keyCode]

\* C25: an active voice keeps the slot, mode, group, volume, pitch and
\* modulation flag it copied at note_on until a note_on re-uses the voice: a
\* step that changes a mapping changes no voice, and note_off of the key
\* stops a voice that started in Loop mode also when the key's mapping is
\* SingleShot by then.
C25_VoiceKeepsCopiedFields ==
  [][/\ keyMappings' # keyMappings => voices' = voices
     /\ \A v \in ActiveVoices :
          \/ CopiedFields(voices'[v]) = CopiedFields(voices[v])
          \/ \E k \in KEYS : note_on(k) /\ voices'[v] = StartedVoice(keyMappings[k], k)
     /\ \A k \in KEYS, v \in ActiveVoices :
          (note_off(k) /\ voices[v].keyCode = k /\ voices[v].mode = Loop)
            => ~voices'[v].active]_vars

\* C25 witness: a voice of a key is idle in Loop mode without having been
\* rendered, while the key's mapping is SingleShot and another voice of the
\* key, started after the change, still plays
C25_Witness ==
  \E k \in KEYS, v, w \in VoiceIds :
    /\ voices[v].keyCode = k /\ voices[v].mode = Loop /\ ~voices[v].active
    /\ keyMappings[k].mode = SingleShot /\ keyMappings[k].hasSound
    /\ JustStartedBy(w, k)

----------------------------------------------------------------------------
(* Claims on the loop wrap and the sample reads, checked under SpecLoop *)

\* C26: a Loop voice at pitch 1.0 whose targetLength is positive and below
\* its buffer length goes back to position modulo targetLength in the frame
\* that finds its position at or beyond targetLength, and the block reads no
\* sample of it at an index at or beyond targetLength.
C26_QuantizedWrap ==
  \A n \in 0 .. (BLOCK_SIZE - 1), v \in VoiceIds :
    LET voice == FramesRendered(n).voices[v]
        after == FramesRendered(n + 1).voices[v]
        length == sounds[voice.soundIndex].length
        targetLength == TargetLength(length, voice.pitch)
    IN  (/\ voice.active /\ voice.mode = Loop /\ voice.pitch = POS_UNIT
         /\ sounds[voice.soundIndex].loaded
         /\ 0 < targetLength /\ targetLength < POS_UNIT * length)
          => /\ voice.position >= targetLength
                  => after.position = voice.position % targetLength
             /\ \A r \in FramesRendered(n + 1).reads :
                  (r.voice = v /\ r.frame = n) => POS_UNIT * r.index < targetLength

\* frame n of the next block is a wrap frame of voice v: the voice is an
\* active Loop voice on a loaded slot and the frame reads no sample for it
WrapFrame(v, n) ==
  LET voice == FramesRendered(n).voices[v]
  IN  /\ voice.active /\ voice.mode = Loop
      /\ SoundDefined(voice.soundIndex) /\ sounds[voice.soundIndex].loaded
      /\ \A r \in FramesRendered(n + 1).reads : ~(r.voice = v /\ r.frame = n)

\* C27: at a loop wrap a Loop voice stays active and is silent for exactly
\* one frame: the frame after a wrap frame reads a sample for the voice.
C27_OneSilentFrame ==
  \A n \in 0 .. (BLOCK_SIZE - 2), v \in VoiceIds :
    WrapFrame(v, n)
      => /\ FramesRendered(n + 1).voices[v].active
         /\ \E r \in FramesRendered(n + 2).reads : r.voice = v /\ r.frame = n + 1

\* C28: every sample read of process() uses an index in [0, length) of the
\* buffer its slot holds at that moment, also after load_sound has replaced
\* the slot with a shorter buffer under a playing voice and after a wrap.
C28_ReadsInsideBuffer ==
  \A r \in RenderBlock.reads :
    /\ SoundDefined(r.slot) /\ sounds[r.slot].loaded
    /\ r.index >= 0 /\ r.index < sounds[r.slot].length

\* C28 witness: an active Loop voice stands at or beyond the end of the
\* buffer its slot now holds, a buffer shorter than the one the voice was
\* started on, and the next block reads a sample for it after the wrap
C28_Witness ==
  \E v \in VoiceIds :
    /\ voices[v].active /\ voices[v].mode = Loop
    /\ sounds[voices[v].soundIndex].loaded
    /\ sounds[voices[v].soundIndex].length < MaxLen
    /\ voices[v].position > 0
    /\ voices[v].position \div POS_UNIT >= sounds[voices[v].soundIndex].length
    /\ \E r \in RenderBlock.reads : r.voice = v

----------------------------------------------------------------------------
(* The edit history on its own: sounds are dropped, deleted and cut, the   *)
(* actions are undone and redone, the page is switched.  The worklet takes *)
(* no part in what the host records, so its steps are left out.            *)

\* a session starts its last handler with fewer than MaxEditIssued messages posted
MaxEditIssued == 9

EditReady == workletNode /\ Len(issued) < MaxEditIssued

HistoryInitializeApp == ~workletNode /\ initializeApp

HistorySoundDrop ==
  /\ EditReady
  /\ \E k \in KEYS : handleSoundDrop(k, Buffer(MaxLen))

HistoryDeleteSound ==
  /\ EditReady
  /\ \E k \in KEYS : deleteSound(k)

HistoryCutAudio ==
  /\ EditReady
  /\ \E k \in KEYS : cutAudio(k)

HistoryUndo == EditReady /\ undo

HistoryRedo == EditReady /\ redo

HistorySwitchToPage ==
  /\ EditReady
  /\ \E p \in 0 .. (MAX_PAGES - 1) : p # activePageIndex /\ switchToPage(p)
  /\ UNCHANGED pageJumpTimers

NextHistory ==
  \/ HistoryInitializeApp
  \/ HistorySoundDrop
  \/ HistoryDeleteSound
  \/ HistoryCutAudio
  \/ HistoryUndo
  \/ HistoryRedo
  \/ HistorySwitchToPage

SpecHistory == Init /\ [][NextHistory]_vars

\* neither stack of any page holds more than MAX_HISTORY_SIZE entries
StacksWithinLimit == \A p \in DOMAIN pageHistories : Len(pageHistories[p].undoStack) <= MAX_HISTORY_SIZE /\ Len(pageHistories[p].redoStack) <= MAX_HISTORY_SIZE

\* an action recorded on a full undo stack drops the oldest entry: the
\* entries above it move down one place and the new entry is on top
DropsOldest ==
  LET old == pageHistories[activePageIndex].undoStack
      new == pageHistories'[activePageIndex].undoStack
  IN  (Len(old) = MAX_HISTORY_SIZE /\ \E k \in KEYS : deleteSound(k) \/ cutAudio(k))
        => /\ Len(new) = MAX_HISTORY_SIZE
           /\ \A i \in 1 .. (MAX_HISTORY_SIZE - 1) : new[i] = old[i + 1]
           /\ new[MAX_HISTORY_SIZE].id \notin {old[i].id : i \in 1 .. Len(old)}

\* C21: on every page, after any recorded actions, undos and redos, neither
\* the undo stack nor the redo stack holds more than MAX_HISTORY_SIZE
\* entries, and an action recorded on a full stack drops the oldest entry.
C21_HistoryLimited == []StacksWithinLimit /\ [][DropsOldest]_vars

\* an undo stack that is full after its first entry was dropped: entry 3 was
\* recorded while entries 1 and 2 were on the stack, and entry 1 is gone
C21_Witness == \E p \in DOMAIN pageHistories : /\ Len(pageHistories[p].undoStack) = MAX_HISTORY_SIZE
                                               /\ pageHistories[p].undoStack[1].id = 2
                                               /\ pageHistories[p].undoStack[MAX_HISTORY_SIZE].id = MAX_HISTORY_SIZE + 1
                                               /\ pageHistories[p].redoStack = <<>>

----------------------------------------------------------------------------
(* The page list on its own: pages are created and switched to, with page  *)
(* indices inside and outside 0 .. MAX_PAGES - 1, and sounds are dropped   *)
(* on the pads of the active page.                                         *)

PagesInitializeApp == ~workletNode /\ initializeApp

PagesCreatePage == workletNode /\ createPage

\* the page indices switchToPage is called with
PageArgs == -1 .. MAX_PAGES

PagesSwitchToPage ==
  /\ workletNode
  /\ Len(issued) < MaxPadIssued
  /\ \E p \in PageArgs : switchToPage(p)
  /\ UNCHANGED pageJumpTimers

PagesSoundDrop ==
  /\ workletNode
  /\ Len(issued) < MaxPadIssued
  /\ \E k \in KEYS : handleSoundDrop(k, Buffer(MaxLen))

NextPages ==
  \/ PagesInitializeApp
  \/ PagesCreatePage
  \/ PagesSwitchToPage
  \/ PagesSoundDrop

SpecPages == Init /\ [][NextPages]_vars

\* a step that changes nothing but the value returned
OnlyReturned == UNCHANGED <<hostVarsButReturned, engineVars>>

\* createPage with MAX_PAGES pages returns -1 and changes nothing
CreatePageRefused == (createPage /\ Cardinality(DOMAIN pages) >= MAX_PAGES) => (returned' = "-1" /\ OnlyReturned)

\* switchToPage with an index outside 0 .. MAX_PAGES - 1 returns false and
\* changes neither the page list nor the active page
SwitchRefused == \A p \in PageArgs : (switchToPage(p) /\ (p < 0 \/ p >= MAX_PAGES)) => (returned' = "false" /\ UNCHANGED <<pages, activePageIndex>>)

\* C22: there are never more than MAX_PAGES pages; createPage called with
\* MAX_PAGES pages returns -1 and changes nothing; switchToPage with an index
\* outside 0 .. MAX_PAGES - 1 returns false and changes neither the page list
\* nor the active page.
C22_PageLimit == [](Cardinality(DOMAIN pages) <= MAX_PAGES) /\ [][CreatePageRefused /\ SwitchRefused]_vars

\* createPage has been refused with all MAX_PAGES pages in place
C22_Witness == Cardinality(DOMAIN pages) = MAX_PAGES /\ returned = "-1"

----------------------------------------------------------------------------
(* Sound drops that take time to decode: between the drop and the end of   *)
(* the decoding the other handlers run, so the active page can change by a *)
(* page hotkey or by the timer of a pad's page jump.                       *)

\* a session starts its last handler with fewer than MaxDropIssued messages posted
MaxDropIssued == 3

DropsReady == workletNode /\ Len(issued) < MaxDropIssued

DropsInitializeApp == ~workletNode /\ initializeApp

\* the drops that are being decoded at one time
MaxPendingDrops == 1

BeginSoundDrop ==
  /\ DropsReady
  /\ Cardinality(soundDrops) < MaxPendingDrops
  /\ \E k \in KEYS : beginSoundDrop(k)

FinishSoundDrop ==
  /\ workletNode
  /\ \E drop \in soundDrops : finishSoundDrop(drop, Buffer(MaxLen))

\* the targets the page jump select offers: none (-1) or a page
JumpArgs == -1 .. (MAX_PAGES - 1)

SetPadPageJump ==
  /\ DropsReady
  /\ \E k \in KEYS, target \in JumpArgs : setPadPageJump(k, target)

DropsKeyDown ==
  /\ DropsReady
  /\ \E k \in KEYS : handleKeyDown(k)

DropsSwitchToPage ==
  /\ DropsReady
  /\ \E p \in 0 .. (MAX_PAGES - 1) : p # activePageIndex /\ switchToPage(p)
  /\ UNCHANGED pageJumpTimers

PageJumpTimer == workletNode /\ pageJumpTimer

NextDrops ==
  \/ DropsInitializeApp
  \/ BeginSoundDrop
  \/ FinishSoundDrop
  \/ SetPadPageJump
  \/ DropsKeyDown
  \/ DropsSwitchToPage
  \/ PageJumpTimer

SpecDrops == Init /\ [][NextDrops]_vars

\* the sound of a drop is stored in the page the drop was made on and is
\* assigned to the pad of that page
DropLandsOnItsPage(drop) ==
  LET mapping == IF drop.page = activePageIndex' THEN hostKeyMappings'[drop.keyCode] ELSE pages'[drop.page].keyMappings[drop.keyCode]
  IN  /\ drop.soundIndex \in pages'[drop.page].sounds
      /\ \A p \in DOMAIN pages' \ {drop.page} : drop.soundIndex \notin pages'[p].sounds
      /\ mapping.hasSound
      /\ mapping.soundIndex = drop.soundIndex

\* C29: a sound dropped on a pad of page p, once decoded, is stored in page p
\* and assigned to the pad of page p, whatever page is active by then.
C29_DropAppliesToItsPage == [][\A drop \in soundDrops : finishSoundDrop(drop, Buffer(MaxLen)) => DropLandsOnItsPage(drop)]_vars

----------------------------------------------------------------------------
(* Undo and redo among the other edits of a pad: between an action and its *)
(* undo or redo the pad's mode is cycled, its page jump is set and sounds  *)
(* are dropped on it.                                                      *)

\* a session starts its last handler with fewer than MaxUndoIssued messages posted
MaxUndoIssued == 8

UndoReady == workletNode /\ Len(issued) < MaxUndoIssued

UndoInitializeApp == ~workletNode /\ initializeApp

UndoSoundDrop ==
  /\ UndoReady
  /\ \E k \in KEYS : handleSoundDrop(k, Buffer(MaxLen))

UndoDeleteSound ==
  /\ UndoReady
  /\ \E k \in KEYS : deleteSound(k)

UndoCutAudio ==
  /\ UndoReady
  /\ \E k \in KEYS : cutAudio(k)

UndoCyclePadMode ==
  /\ UndoReady
  /\ \E k \in KEYS : cyclePadMode(k)

UndoSetPadPageJump ==
  /\ UndoReady
  /\ \E k \in KEYS, target \in JumpArgs : setPadPageJump(k, target)

UndoUndo == UndoReady /\ undo

UndoRedo == UndoReady /\ redo

NextUndo ==
  \/ UndoInitializeApp
  \/ UndoSoundDrop
  \/ UndoDeleteSound
  \/ UndoCutAudio
  \/ UndoCyclePadMode
  \/ UndoSetPadPageJump
  \/ UndoUndo
  \/ UndoRedo

SpecUndo == Init /\ [][NextUndo]_vars

\* after the step every pad of states has the mapping, sound and page jump
\* target of its snapshot
PadsRestoredTo(states) == \A k \in DOMAIN states : createPadSnapshot(k, hostKeyMappings', pages'[activePageIndex']) = states[k]

\* every pad of states has the mapping, sound and page jump target of its snapshot
PadsAre(states) == \A k \in DOMAIN states : createPadSnapshot(k, hostKeyMappings, pages[activePageIndex]) = states[k]

\* undo restores the pads of the action to what they were before it
UndoRestoresBefore ==
  LET stack == pageHistories[activePageIndex].undoStack
  IN  (undo /\ stack # <<>>) => (returned' = "true" /\ PadsRestoredTo(stack[Len(stack)].recordedBefore))

\* redo, with the pads as the undo of the action left them, restores them to
\* what they were after the action
RedoRestoresAfter ==
  LET stack == pageHistories[activePageIndex].redoStack
  IN  (redo /\ stack # <<>> /\ PadsAre(stack[Len(stack)].recordedBefore)) => (returned' = "true" /\ PadsRestoredTo(stack[Len(stack)].recordedAfter))

\* undo and redo on an empty stack return false and change nothing
EmptyStackRefused ==
  /\ (undo /\ pageHistories[activePageIndex].undoStack = <<>>) => (returned' = "false" /\ OnlyReturned)
  /\ (redo /\ pageHistories[activePageIndex].redoStack = <<>>) => (returned' = "false" /\ OnlyReturned)

\* C30: undo of an action restores every pad of the action to the mapping,
\* sound and page jump target it had immediately before the action; a redo
\* that directly follows restores what the pad had immediately after the
\* action; undo and redo on an empty stack return false and change nothing.
C30_UndoRedoRestore == [][UndoRestoresBefore /\ RedoRestoresAfter /\ EmptyStackRefused]_vars

\* the entries of both stacks of every page
AllEntries == UNION {StackEntries(pageHistories[p].undoStack) \cup StackEntries(pageHistories[p].redoStack) : p \in DOMAIN pageHistories}

\* C31: an entry of the history holds, as long as it is on a stack, the
\* before and after pad states it was recorded with, whatever is edited
\* afterwards.
C31_SnapshotsImmutable == \A e \in AllEntries : e.beforeState = e.recordedBefore /\ e.afterState = e.recordedAfter

\* C32: immediately after an action is recorded canRedo() is false: the redo
\* stack of the active page is empty and the entries it held are on no stack.
C32_RecordEmptiesRedo == [][(\E k \in KEYS : deleteSound(k) \/ cutAudio(k)) => (~canRedo' /\ \A e \in StackEntries(pageHistories[activePageIndex].redoStack) : e.id \notin EntryIds(pageHistories'))]_vars

\* an action was recorded while an undone action was on the redo stack:
\* entry 3 was made while entries 1 and 2 existed, and entry 2 is gone
C32_Witness == \E p \in DOMAIN pageHistories : /\ Len(pageHistories[p].undoStack) = 2
                                               /\ pageHistories[p].undoStack[1].id = 1
                                               /\ pageHistories[p].undoStack[2].id = 3
                                               /\ pageHistories[p].redoStack = <<>>
                                               /\ \A q \in DOMAIN pageHistories \ {p} : pageHistories[q] = EmptyHistory

----------------------------------------------------------------------------
(* The import of a page file into the active page, among recorded actions  *)
(* and their undo and redo.  A page file holds no pad or one pad with a    *)
(* sound; nothing else runs while its sounds are decoded.                  *)

\* the page files: the pads with a sound in the file, each with the local
\* sound index 0
KeyPageFiles == {[pads |-> {}], [pads |-> {KeyA}]}

\* PageManager.clearActivePage(): the active page after the call
ClearedPage(index) == createEmptyPage(index)

\* ProjectIO.importPage(file) with no target page: switchToPage of the active
\* page changes nothing, clearActivePage empties the page and resets the mode
\* manager, the sounds of the file are loaded and stored, applyKeyPageSettings
\* sets the pads and saves the page, reloadActivePage loads it again
importPage(file) ==
  LET globalIndex == pageStart(activePageIndex)
      fileSounds == IF file.pads = {} THEN {} ELSE {globalIndex}
      loaded == loadedSounds \cup fileSounds
      mappings == [k \in KEYS |-> IF k \in file.pads THEN [createDefaultKeyMapping EXCEPT !.soundIndex = globalIndex, !.hasSound = TRUE] ELSE createDefaultKeyMapping]
      stored == [ClearedPage(activePageIndex) EXCEPT !.sounds = fileSounds, !.keySoundIndices = [k \in file.pads |-> globalIndex]]
      page == [stored EXCEPT !.keyMappings = mappings, !.sounds = @ \cup {i \in loaded : i >= pageStart(activePageIndex) /\ i < pageEnd(activePageIndex)}]
      keys == Ordered(file.pads)
  IN  /\ activePageIndex \in DOMAIN pages
      /\ pages' = [pages EXCEPT ![activePageIndex] = page]
      /\ loadedSounds' = loaded \cup {i \in page.sounds : i >= pageStart(activePageIndex) /\ i < pageEnd(activePageIndex)}
      /\ hostKeyMappings' = [k \in KEYS |-> IF k \in AppliedKeys(page, activePageIndex) THEN page.keyMappings[k] ELSE createDefaultKeyMapping]
      /\ sharedMappings' = [k \in KEYS |-> <<>>]
      /\ postMessages([n \in 1 .. Cardinality(fileSounds) |-> Message("loadSound", <<globalIndex, Buffer(MaxLen)>>)]
                        \o <<Message("setModulationPreset", <<PresetNone>>)>>
                        \o [n \in 1 .. Len(keys) |-> KeyMappingMessage(keys[n], mappings[keys[n]])]
                        \o LoadPageMessages(page, activePageIndex))
      /\ returned' = "true"
      /\ UNCHANGED <<activePageIndex, heldKeys, pageHistories, pageJumpTimers, soundDrops>>
      /\ PadFrame

\* a session starts its last handler with fewer than MaxImportIssued messages posted
MaxImportIssued == 6

ImportReady == workletNode /\ Len(issued) < MaxImportIssued

ImportInitializeApp == ~workletNode /\ initializeApp

ImportSoundDrop ==
  /\ ImportReady
  /\ \E k \in KEYS : handleSoundDrop(k, Buffer(MaxLen))

ImportDeleteSound ==
  /\ ImportReady
  /\ \E k \in KEYS : deleteSound(k)

ImportUndo == ImportReady /\ undo

ImportRedo == ImportReady /\ redo

ImportPage ==
  /\ ImportReady
  /\ \E file \in KeyPageFiles : importPage(file)

NextImport ==
  \/ ImportInitializeApp
  \/ ImportSoundDrop
  \/ ImportDeleteSound
  \/ ImportUndo
  \/ ImportRedo
  \/ ImportPage

SpecImport == Init /\ [][NextImport]_vars

\* C33: once an import has replaced the content of the active page, undo and
\* redo on that page have no entry to re-apply: the entries its stacks hold
\* at that moment were all recorded before the replacement.
C33_NoUndoAcrossImport == [][(\E file \in KeyPageFiles : importPage(file)) => pageHistories'[activePageIndex] = EmptyHistory]_vars

\* C35: after the sound of a pad is deleted or cut and the page state is
\* saved (both handlers save it), the sounds stored in the active page do not
\* contain the slot the pad used.
C35_RemovedSoundNotStored == [][\A k \in KEYS : (deleteSound(k) \/ cutAudio(k)) => hostKeyMappings[k].soundIndex \notin pages'[activePageIndex].sounds]_vars

\* C36: a slot of a page is in use by one pad of the page at most, so loading
\* a sound for one pad does not overwrite the audio of another pad.
C36_SlotsNotShared == \A p \in DOMAIN pages : \A k1, k2 \in DOMAIN pages[p].keySoundIndices : pages[p].keySoundIndices[k1] = pages[p].keySoundIndices[k2] => k1 = k2

----------------------------------------------------------------------------
(* The clipboard: sounds are dropped on pads, pads and their audio are     *)
(* copied and cut, and the clipboard is pasted on a pad.                   *)

\* a session starts its last handler with fewer than MaxClipboardIssued messages posted
MaxClipboardIssued == 6

ClipboardReady == workletNode /\ Len(issued) < MaxClipboardIssued

ClipboardInitializeApp == ~workletNode /\ initializeApp

ClipboardSoundDrop ==
  /\ ClipboardReady
  /\ \E k \in KEYS : handleSoundDrop(k, Buffer(MaxLen))

CopyAudio ==
  /\ ClipboardReady
  /\ \E k \in KEYS : copyAudio(k)

ClipboardCutAudio ==
  /\ ClipboardReady
  /\ \E k \in KEYS : cutAudio(k)

CopyPad ==
  /\ ClipboardReady
  /\ \E k \in KEYS : copyPad(k)

CutPad ==
  /\ ClipboardReady
  /\ \E k \in KEYS : cutPad(k)

Paste ==
  /\ ClipboardReady
  /\ \E k \in KEYS : paste(k)

NextClipboard ==
  \/ ClipboardInitializeApp
  \/ ClipboardSoundDrop
  \/ CopyAudio
  \/ ClipboardCutAudio
  \/ CopyPad
  \/ CutPad
  \/ Paste

SpecClipboard == Init /\ [][NextClipboard]_vars

\* a paste of cut content succeeds and leaves the clipboard empty
CutPastedOnce == \A k \in KEYS : (paste(k) /\ clipboard.type # "Empty" /\ clipboard.wasCut) => (returned' = "true" /\ clipboard' = EmptyClipboard)

\* a paste with the empty clipboard fails and changes no pad
EmptyPasteFails == \A k \in KEYS : (paste(k) /\ clipboard.type = "Empty") => (returned' = "false" /\ UNCHANGED <<hostKeyMappings, pages, loadedSounds, issued, pageHistories>>)

\* a paste of copied content succeeds and leaves the clipboard as it is
CopyStays == \A k \in KEYS : (paste(k) /\ clipboard.type # "Empty" /\ ~clipboard.wasCut) => (returned' = "true" /\ clipboard' = clipboard)

\* C34: content a cut put on the clipboard is pasted once: the paste leaves
\* the clipboard empty, and a paste with the empty clipboard fails and
\* changes no pad; content a copy put there stays after every paste.
C34_CutPastesOnce == [][CutPastedOnce /\ EmptyPasteFails /\ CopyStays]_vars

\* cut content was pasted on another pad and a further paste has failed
C34_Witness ==
  /\ clipboard = EmptyClipboard
  /\ returned = "false"
  /\ \E e \in StackEntries(pageHistories[activePageIndex].undoStack) : e.actionType = "paste" /\ Len(e.affectedPads) = 2

(* The keyboard handler: held keys, noteOn and noteOff *)

\* the messages of a keyboard session
MaxKeyboardIssued == 6

KeyboardReady == workletNode /\ Len(port) <= MaxQueued /\ Len(issued) < MaxKeyboardIssued

KeyboardInitializeApp == initializeApp

KeyboardSoundDrop ==
  /\ KeyboardReady
  /\ \E k \in KEYS : handleSoundDrop(k, Buffer(MaxLen))

KeyboardCyclePadMode ==
  /\ KeyboardReady
  /\ \E k \in KEYS : cyclePadMode(k)

\* a keydown event of a launchpad key; for a held key it is a key repeat
KeyboardKeyDown ==
  /\ KeyboardReady
  /\ \E k \in KEYS : handleKeyDown(k)

\* a keyup event of a launchpad key
KeyboardKeyUp ==
  /\ KeyboardReady
  /\ \E k \in KEYS : handleKeyUp(k)

\* window blur, the tab hidden, or before unload
ReleaseAllKeys ==
  /\ KeyboardReady
  /\ releaseAllKeys

Disable ==
  /\ KeyboardReady
  /\ keyboardEnabled
  /\ disable

Enable ==
  /\ KeyboardReady
  /\ ~keyboardEnabled
  /\ enable

NextKeyboard ==
  \/ KeyboardInitializeApp
  \/ KeyboardSoundDrop
  \/ KeyboardCyclePadMode
  \/ KeyboardKeyDown
  \/ KeyboardKeyUp
  \/ ReleaseAllKeys
  \/ Disable
  \/ Enable
  \/ HandleMessage
  \/ WorkletProcess

SpecKeyboard == Init /\ [][NextKeyboard]_vars

\* the noteOn and noteOff messages for a key among the messages sent
IsNote(message, type, keyCode) == message.type = type /\ message.data = <<keyCode>>

\* the keys whose last noteOn is not followed by a noteOff
Sounding(messages) == {k \in KEYS : \E i \in DOMAIN messages : IsNote(messages[i], "noteOn", k) /\ \A j \in DOMAIN messages : j > i => ~IsNote(messages[j], "noteOff", k)}

\* C37: key repeat never retriggers a sound: between two noteOn messages for
\* the same key there is always a noteOff for that key
C37_NoRetriggerWhileHeld == \A k \in KEYS : \A i, j \in DOMAIN issued : (i < j /\ IsNote(issued[i], "noteOn", k) /\ IsNote(issued[j], "noteOn", k)) => \E m \in DOMAIN issued : i < m /\ m < j /\ IsNote(issued[m], "noteOff", k)

\* a key was pressed, released and pressed again, and is held
C37_Witness == \E k \in heldKeys : \E i, m, j \in DOMAIN issued : i < m /\ m < j /\ IsNote(issued[i], "noteOn", k) /\ IsNote(issued[m], "noteOff", k) /\ IsNote(issued[j], "noteOn", k)

\* the held keys are the keys with a noteOn not yet followed by a noteOff
HeldAreSounding == heldKeys = Sounding(issued)

\* with every message applied, no Loop voice of a key that is not held is active
NoLoopVoiceLeft == port = <<>> => \A v \in VoiceIds : (voices[v].active /\ voices[v].mode = Loop) => voices[v].keyCode \in heldKeys

\* a key-up, a release of all keys and a disable send the noteOff of every
\* key they release, and the last two release every held key
ReleaseSendsNoteOff ==
  /\ (\E k \in KEYS : handleKeyUp(k)) \/ releaseAllKeys \/ disable => (heldKeys \ heldKeys') \cap Sounding(issued') = {}
  /\ (\A k \in KEYS : handleKeyUp(k) => k \notin heldKeys')
  /\ (releaseAllKeys \/ disable => heldKeys' = {})

====
